---- MODULE Spec2Model ----
(***************************************************************************)
(* Local-operation engine of the tetrahedral mesh / prism shell editor     *)
(* (src/src/batm/tetra_utils.cpp).                                         *)
(*                                                                         *)
(* Indices are 0-based as in the source; At(s, i) reads slot i of a        *)
(* vector.  -1 is the source's "none" sentinel.  Positions are points of   *)
(* an integer grid: the grid plays the role of the representable numbers,  *)
(* so that a midpoint is rounded the way finite-precision arithmetic       *)
(* rounds it and a child tet of a split can come out degenerate.           *)
(***************************************************************************)
EXTENDS Integers, Sequences, FiniteSets, TLC

VARIABLES
    vert_attrs,         \* std::vector<VertAttr>: [pos, mid_id]
    tet_attrs,          \* std::vector<TetAttr>: [conn, prism_id, is_removed]
    vert_conn,          \* vertex -> sorted list of incident tets
    pc_top,             \* PrismCage::top
    pc_base,            \* PrismCage::base
    pc_mid,             \* PrismCage::mid
    pc_F,               \* PrismCage::F, shell triangles, <<-1,-1,-1>> = empty slot
    pc_track_ref,       \* PrismCage::track_ref
    target_adjustment,  \* RemeshOptions::target_adjustment
    ndebug,             \* TRUE: asserts compiled out (release build)
    last,               \* the last call: operation, arguments, outcome and path
    count,              \* calls made so far that changed a store, by kind
    before,             \* the tets and shell triangles the last call started from
    vertex_attrs,           \* AdaMesh::vertex_attrs: [m_posf, m_posr, rounded,
                            \*   m_is_on_surface, on_bbox_faces]
    m_tet_connectivity,     \* TetMesh: [m_indices, m_is_removed] of every tet
    m_vertex_connectivity,  \* TetMesh: [m_conn_tets, m_is_removed] of every vertex
    m_face_attribute,       \* AdaMesh::m_face_attribute: face -> FaceAttributes
    ada_last                \* the last AdaMesh call: operation, argument, outcome

vars == <<vert_attrs, tet_attrs, vert_conn, pc_top, pc_base, pc_mid, pc_F,
          pc_track_ref, target_adjustment, ndebug, last, count, before,
          vertex_attrs, m_tet_connectivity, m_vertex_connectivity, m_face_attribute,
          ada_last>>

\* ------------------------------------------------------------------ bounds

\* The driver makes at most this many calls that change a store.
MaxCalls == 2
\* At most this many of them are smooth_vertex calls.
MaxSmooth == 1
\* At most this many of them are compact_tetmesh calls.
MaxCompact == 1
\* Vertex coordinates stay in 0..MaxCoord.
MaxCoord == 4

\* ----------------------------------------------------------------- vectors

At(s, i) == s[i + 1]

InRange(s, i) == i >= 0 /\ i < Len(s)

Range(s) == {s[i] : i \in 1..Len(s)}

\* The sequence f, with its elements computed once.
Vector(f) == f \o <<>>

PopBack(s) == SubSeq(s, 1, Len(s) - 1)

\* s with slot i set to x; the callers decide what a write outside s does.
Put(s, i, x) ==
    LET t == s
    IN  IF InRange(t, i) THEN SubSeq(t, 1, i) \o <<x>> \o SubSeq(t, i + 2, Len(t)) ELSE t

None3 == <<-1, -1, -1>>

None4 == <<-1, -1, -1, -1>>

RECURSIVE set_inter(_, _)
set_inter(A, B) ==
    IF A = <<>> \/ B = <<>> THEN <<>>
    ELSE IF Head(A) < Head(B) THEN set_inter(Tail(A), B)
    ELSE IF Head(B) < Head(A) THEN set_inter(A, Tail(B))
    ELSE <<Head(A)>> \o set_inter(Tail(A), Tail(B))

RECURSIVE set_minus(_, _)
set_minus(A, B) ==
    IF A = <<>> THEN <<>>
    ELSE IF B = <<>> THEN A
    ELSE IF Head(A) < Head(B) THEN <<Head(A)>> \o set_minus(Tail(A), B)
    ELSE IF Head(B) < Head(A) THEN set_minus(A, Tail(B))
    ELSE set_minus(Tail(A), Tail(B))

\* An insert that leaves the list as it is.
set_insert_skipped(A, a) == A

\* An insert at the front of the list.
set_insert_front(A, a) == <<a>> \o A

\* std::lower_bound, then insert: before the first element that is not less than a.
set_insert(A, a) ==
    LET lt == {i \in 1..Len(A) : \A k \in 1..i : A[k] < a}
        n  == Cardinality(lt)
    IN  SubSeq(A, 1, n) \o <<a>> \o SubSeq(A, n + 1, Len(A))

\* Position (1-based) of the first occurrence of k, 0 when absent.
FirstPos(arr, k) ==
    IF \E i \in 1..Len(arr) : arr[i] = k
    THEN CHOOSE i \in 1..Len(arr) : arr[i] = k /\ \A m \in 1..(i - 1) : arr[m] # k
    ELSE 0

id_in_array(arr, k) == FirstPos(arr, k) - 1

\* Replaces the first occurrence of a by b; the array is left alone when a is absent.
replace(arr, a, b) ==
    IF FirstPos(arr, a) = 0 THEN arr ELSE Put(arr, FirstPos(arr, a) - 1, b)

Sort3(f) ==
    LET lo == IF f[1] <= f[2] /\ f[1] <= f[3] THEN f[1]
              ELSE IF f[2] <= f[3] THEN f[2] ELSE f[3]
        hi == IF f[1] >= f[2] /\ f[1] >= f[3] THEN f[1]
              ELSE IF f[2] >= f[3] THEN f[2] ELSE f[3]
    IN  <<lo, f[1] + f[2] + f[3] - lo - hi, hi>>

\* The face of conn opposite to local vertex j (0..3), sorted.
sorted_face(conn, j) ==
    Sort3(<<conn[((1 + j) % 4) + 1], conn[((2 + j) % 4) + 1], conn[((3 + j) % 4) + 1]>>)

\* ---------------------------------------------------------------- geometry

VSub(a, b) == <<a[1] - b[1], a[2] - b[2], a[3] - b[3]>>

VAdd(a, b) == <<a[1] + b[1], a[2] + b[2], a[3] + b[3]>>

Norm2(a) == a[1] * a[1] + a[2] * a[2] + a[3] * a[3]

Cross(a, b) ==
    <<a[2] * b[3] - a[3] * b[2], a[3] * b[1] - a[1] * b[3], a[1] * b[2] - a[2] * b[1]>>

Dot(a, b) == a[1] * b[1] + a[2] * b[2] + a[3] * b[3]

\* (a + b) / 2 in the grid's arithmetic: the result is rounded to a grid point.
Midpoint(a, b) == <<(a[1] + b[1]) \div 2, (a[2] + b[2]) \div 2, (a[3] + b[3]) \div 2>>

\* Six times the signed volume of the tet (p0, p1, p2, p3).
Orient3D(p0, p1, p2, p3) == Dot(VSub(p1, p0), Cross(VSub(p2, p0), VSub(p3, p0)))

TetPos(va, t) == [j \in 1..4 |-> At(va, t[j]).pos]

\* A tet is valid when it is neither degenerate nor inverted.
tetra_validity(va, t) ==
    LET p == TetPos(va, t) IN Orient3D(p[1], p[2], p[3], p[4]) > 0

\* A loop over the tets that checks none of them.
AllValidUnchecked(va, tets) == TRUE

\* The loop an editor runs over its new tets: all of them are valid.
AllValid(va, tets) == \A k \in 1..Len(tets) : tetra_validity(va, tets[k])

\* Shape energy of a tet, higher is worse: the cube of the mean-ratio energy,
\* (sum of squared edge lengths)^3 / (6 volume)^2, rounded down; a degenerate or
\* inverted tet gets a value above every valid one.
tetra_quality(p0, p1, p2, p3) ==
    LET d == Orient3D(p0, p1, p2, p3)
        l == Norm2(VSub(p1, p0)) + Norm2(VSub(p2, p0)) + Norm2(VSub(p3, p0))
             + Norm2(VSub(p2, p1)) + Norm2(VSub(p3, p1)) + Norm2(VSub(p3, p2))
    IN  IF d <= 0 THEN l * l * l + 1 ELSE (l * l * l) \div (d * d)

\* Squared circumradius of a tet, rounded down; unbounded for a flat tet.
circumradi2(p0, p1, p2, p3) ==
    LET u == VSub(p1, p0)
        v == VSub(p2, p0)
        w == VSub(p3, p0)
        d == Dot(u, Cross(v, w))
        cvw == Cross(v, w)
        cwu == Cross(w, u)
        cuv == Cross(u, v)
        num == [k \in 1..3 |-> Norm2(u) * cvw[k] + Norm2(v) * cwu[k] + Norm2(w) * cuv[k]]
        n2  == num[1] * num[1] + num[2] * num[2] + num[3] * num[3]
    IN  IF d = 0 THEN n2 + Norm2(u) + Norm2(v) + Norm2(w) + 1 ELSE n2 \div (4 * d * d)

Max(a, b) == IF a >= b THEN a ELSE b

\* max over the tets of tetra_quality, starting from 0.
RECURSIVE compute_quality(_, _)
compute_quality(va, tets) ==
    IF tets = <<>> THEN 0
    ELSE LET p == TetPos(va, Head(tets))
         IN  Max(tetra_quality(p[1], p[2], p[3], p[4]), compute_quality(va, Tail(tets)))

\* max over the tets of circumradi2, starting from 0.
RECURSIVE max_tetra_sizes(_, _)
max_tetra_sizes(va, tets) ==
    IF tets = <<>> THEN 0
    ELSE LET p == TetPos(va, Head(tets))
         IN  Max(circumradi2(p[1], p[2], p[3], p[4]), max_tetra_sizes(va, Tail(tets)))

\* ------------------------------------------------------------ construction

\* A cell_finder keyed by the shell triangles as stored, not sorted.
CellFinderUnsorted(F, face) ==
    LET hits == {i \in 0..(Len(F) - 1) : At(F, i) = face}
    IN  IF hits = {} THEN -1 ELSE CHOOSE i \in hits : \A k \in hits : i <= k

\* cell_finder of prepare_tet_info: sorted shell triangle -> first slot holding it.
CellFinder(F, face) ==
    LET hits == {i \in 0..(Len(F) - 1) : Sort3(At(F, i)) = face}
    IN  IF hits = {} THEN -1 ELSE CHOOSE i \in hits : \A k \in hits : i <= k

\* Sorted triple of the shell ids of the face of conn opposite to local vertex j.
MidFace(va, conn, j) ==
    Sort3(<<At(va, conn[((j + 1) % 4) + 1]).mid_id,
            At(va, conn[((j + 2) % 4) + 1]).mid_id,
            At(va, conn[((j + 3) % 4) + 1]).mid_id>>)

\* The members of a set of integers in ascending order.
Ascending(S) ==
    Vector([k \in 1..Cardinality(S) |-> CHOOSE x \in S : Cardinality({y \in S : y < x}) = k - 1])

\* The tets that contain v, in the order a pass over the tet array pushes them.
SortedTets(ta, v) ==
    Ascending({i \in 0..(Len(ta) - 1) : \E j \in 1..4 : At(ta, i).conn[j] = v})

\* prepare_tet_info: the three stores built from the input mesh and the shell.
prepare_tet_info(F, tet_v, tet_t, tet_v_pid) ==
    LET vert_info == Vector([i \in 1..Len(tet_v) |-> [pos |-> tet_v[i], mid_id |-> tet_v_pid[i]]])
        tet_info  == Vector([i \in 1..Len(tet_t) |->
                        [conn |-> tet_t[i],
                         prism_id |->
                            Vector([j \in 1..4 |->
                                LET face == MidFace(vert_info, tet_t[i], j - 1)
                                IN  IF face[1] < 0 THEN -1 ELSE CellFinder(F, face)]),
                         is_removed |-> FALSE]])
        vt_conn   == Vector([i \in 1..Len(tet_v) |-> SortedTets(tet_info, i - 1)])
    IN  [va |-> vert_info, ta |-> tet_info, vc |-> vt_conn]

\* Three tets around the interior edge (0, 1), ring (2, 3, 4); every vertex is on
\* the shell, shell vertex i is mesh vertex i, the six outer faces are the shell.
RingTets == << <<0, 1, 2, 3>>, <<0, 1, 3, 4>>, <<0, 1, 4, 2>> >>

RingF == << <<1, 2, 3>>, <<0, 3, 2>>, <<1, 3, 4>>, <<0, 4, 3>>, <<1, 4, 2>>, <<0, 2, 4>> >>

RingPid == <<0, 1, 2, 3, 4>>

\* Vertex 0 below and vertex 1 above the ring: the midpoint of the axis (0, 1) is
\* rounded to <<1, 1, 2>>, next to vertex 0, and the three tets around the axis
\* have the same quality as the two tets the 3-2 swap replaces them with.
RingV == << <<1, 1, 1>>, <<2, 2, 4>>, <<0, 0, 2>>, <<4, 0, 2>>, <<0, 4, 2>> >>

\* The tet (0, 1, 2, 3) cut into four by an interior vertex 5, and a vertex 4
\* outside of it with two more tets, on the faces (1, 2, 3) and (0, 1, 3).  Vertex
\* 5 is next to vertex 0, so the midpoint of the edge (0, 5) is rounded to vertex
\* 0; vertex 1 is on the shell, next to vertex 5, and has tets without vertex 5.
CoreV == << <<0, 0, 0>>, <<0, 1, 3>>, <<4, 0, 0>>, <<2, 4, 0>>, <<0, 2, 3>>, <<1, 1, 1>> >>

CoreTets == << <<5, 1, 2, 3>>, <<0, 5, 2, 3>>, <<0, 1, 5, 3>>, <<0, 1, 2, 5>>,
               <<1, 2, 3, 4>>, <<0, 1, 3, 4>> >>

CoreF == << <<0, 1, 2>>, <<0, 2, 3>>, <<1, 2, 4>>, <<2, 3, 4>>, <<0, 1, 4>>, <<0, 3, 4>> >>

CorePid == <<0, 1, 2, 3, 4, -1>>

\* The input meshes: vertex positions, tets, the shell id of each vertex, and the
\* triangles of the shell.
Meshes ==
    {[V |-> RingV, T |-> RingTets, pid |-> RingPid, F |-> RingF],
     [V |-> CoreV, T |-> CoreTets, pid |-> CorePid, F |-> CoreF]}

Offset == <<0, 0, 1>>

Init ==
    \E nd \in BOOLEAN, in \in Meshes :
        LET V == SubSeq(in.V, 1, Len(RingPid))
            m == prepare_tet_info(in.F, in.V, in.T, in.pid)
        IN  /\ vert_attrs = m.va
            /\ tet_attrs = m.ta
            /\ vert_conn = m.vc
            /\ pc_mid = V
            /\ pc_top = Vector([i \in 1..Len(V) |-> VAdd(V[i], Offset)])
            /\ pc_base = Vector([i \in 1..Len(V) |-> VSub(V[i], Offset)])
            /\ pc_F = in.F
            /\ pc_track_ref = Vector([i \in 1..Len(in.F) |-> {i - 1}])
            /\ target_adjustment = Vector([i \in 1..Len(V) |-> 0])
            /\ ndebug = nd
            /\ last = [op |-> "init", ret |-> "true", why |-> "", a |-> -1, b |-> -1, c |-> -1,
                       sc |-> -1, th |-> -1, exists |-> TRUE, noop |-> FALSE]
            /\ count = [calls |-> 0, smooth |-> 0, compact |-> 0, absent |-> 0]
            /\ before = [ta |-> m.ta, vc |-> m.vc, F |-> in.F]
            /\ vertex_attrs = <<>>
            /\ m_tet_connectivity = <<>>
            /\ m_vertex_connectivity = <<>>
            /\ m_face_attribute = <<>>
            /\ ada_last = [op |-> "init", arg |-> -1, ret |-> TRUE, value |-> -1, path |-> ""]

\* ------------------------------------------------------------ shell layer

\* The stores as one value, so that an editor is a function from stores to stores.
Stores ==
    [va |-> vert_attrs, ta |-> tet_attrs, vc |-> vert_conn, top |-> pc_top,
     base |-> pc_base, mid |-> pc_mid, F |-> pc_F, tr |-> pc_track_ref,
     adj |-> target_adjustment]

\* A read of slot i; past the end of the vector the read is undefined and yields g.
ReadAt(s, i, g) == IF InRange(s, i) THEN At(s, i) ELSE g

\* Values an out-of-bounds read of a position vector may yield.
Garbage == {<<0, 0, 0>>, <<2, 2, 2>>}

\* triangle_shifts: each triangle rotated so that its smallest index comes first.
triangle_shift(f) ==
    IF f[1] <= f[2] /\ f[1] <= f[3] THEN f
    ELSE IF f[2] <= f[3] THEN <<f[2], f[3], f[1]>>
    ELSE <<f[3], f[1], f[2]>>

triangle_shifts(conn) == Vector([i \in 1..Len(conn) |-> triangle_shift(conn[i])])

\* vector::resize(n) when n exceeds the size: the new slots hold x.
GrowTo(s, n, x) == IF Len(s) >= n THEN s ELSE s \o Vector([k \in 1..(n - Len(s)) |-> x])

RECURSIVE FillEmpty(_, _)
FillEmpty(F, old_fid) ==
    IF old_fid = <<>> THEN F
    ELSE LET F1 == Put(F, Head(old_fid), None3)
         IN  FillEmpty(F1, Tail(old_fid))

RECURSIVE InstallTris(_, _, _, _)
InstallTris(pc, new_fid, conn, tracks) ==
    IF new_fid = <<>> THEN pc
    ELSE LET f  == Head(new_fid)
             F1 == IF f >= Len(pc.F) THEN GrowTo(pc.F, f + 1, None3) ELSE pc.F
             T1 == IF f >= Len(pc.F) THEN GrowTo(pc.tr, f + 1, {}) ELSE pc.tr
             p1 == [pc EXCEPT !.F = Put(F1, f, Head(conn)), !.tr = Put(T1, f, Head(tracks))]
         IN  InstallTris(p1, Tail(new_fid), Tail(conn), Tail(tracks))

\* An update_pc that appends the new triangles instead of writing them at new_fid.
update_pc_appended(pc, old_fid, new_fid, new_conn, new_tracks) ==
    InstallTris([pc EXCEPT !.F = FillEmpty(@, old_fid)],
                Vector([k \in 1..Len(new_fid) |-> Len(pc.F) + k - 1]),
                triangle_shifts(new_conn), new_tracks)

\* update_pc: empties the old slots, installs the shifted new triangles and their
\* tracked sets at new_fid.  pc is the stores, of which it rewrites F and tr.
update_pc(pc, old_fid, new_fid, new_conn, new_tracks) ==
    InstallTris([pc EXCEPT !.F = FillEmpty(@, old_fid)],
                new_fid, triangle_shifts(new_conn), new_tracks)

\* The tracked sets the shell oracle hands back on success: every new triangle
\* tracks what the replaced triangles tracked together.
ShellNewTracks(tr, old_fid, n) ==
    Vector([i \in 1..n |-> UNION {At(tr, f) : f \in Range(old_fid)}])

\* Tags (shell triangle ids) of tet t on the faces that contain both v0 and v1.
BndOfTet(ta, t, v0, v1) ==
    LET a  == At(ta, t)
        js == SelectSeq(<<1, 2, 3, 4>>,
                        LAMBDA j : a.prism_id[j] # -1 /\ a.conn[j] # v0 /\ a.conn[j] # v1)
    IN  Vector([k \in 1..Len(js) |-> a.prism_id[js[k]]])

RECURSIVE BndOfTets(_, _, _, _)
BndOfTets(ta, tets, v0, v1) ==
    IF tets = <<>> THEN <<>>
    ELSE BndOfTet(ta, Head(tets), v0, v1) \o BndOfTets(ta, Tail(tets), v0, v1)

\* A scan that takes the tags of the faces that contain v0, whether or not they
\* contain v1.
edge_adjacent_boundary_face_of_v0(ta, vc, v0, v1) ==
    BndOfTets(ta, set_inter(At(vc, v0), At(vc, v1)), v0, v0)

edge_adjacent_boundary_face(ta, vc, v0, v1) ==
    BndOfTets(ta, set_inter(At(vc, v0), At(vc, v1)), v0, v1)

\* ------------------------------------------------------ connectivity rewrite

\* The faces of the affected tets with their tags, in the order the source visits
\* them (tet by tet, local face 0..3), keyed by the sorted shell ids of the face.
MovedEntries(va, ta, affected) ==
    Vector([k \in 1..(4 * Len(affected)) |->
        LET a == At(ta, affected[((k - 1) \div 4) + 1])
            j == (k - 1) % 4
        IN  [face |-> MidFace(va, a.conn, j), pid |-> a.prism_id[j + 1]]])

\* Keys of moved_pris_assigner.
AssignerKeys(entries, modified_tris) ==
    {entries[k].face : k \in {k \in 1..Len(entries) : entries[k].pid # -1}}
        \cup {Sort3(modified_tris[i]) : i \in 1..Len(modified_tris)}

\* moved_pris_assigner[face]: emplace keeps the first tag of an old face,
\* insert_or_assign lets the last supplied triangle overwrite it.
Assigner(entries, modified_pids, modified_tris, face) ==
    LET ms == {i \in 1..Len(modified_tris) : Sort3(modified_tris[i]) = face}
        es == {k \in 1..Len(entries) : entries[k].pid # -1 /\ entries[k].face = face}
    IN  IF ms # {} THEN modified_pids[CHOOSE i \in ms : \A m \in ms : m <= i]
        ELSE IF es # {} THEN entries[CHOOSE k \in es : \A m \in es : k <= m].pid
        ELSE -1

\* A record whose tag for local face j is looked up with the face after it.
NewTetAttrShifted(va, t, entries, modified_pids, modified_tris) ==
    [conn |-> t,
     prism_id |-> Vector([j \in 1..4 |->
                    LET face == MidFace(va, t, j % 4)
                    IN  IF face[1] = -1 THEN -1
                        ELSE Assigner(entries, modified_pids, modified_tris, face)]),
     is_removed |-> FALSE]

\* The record appended for new tet t: its tags re-derived from the assigner.
NewTetAttr(va, t, entries, modified_pids, modified_tris) ==
    [conn |-> t,
     prism_id |-> Vector([j \in 1..4 |->
                    LET face == MidFace(va, t, j - 1)
                    IN  IF face[1] = -1 THEN -1
                        ELSE Assigner(entries, modified_pids, modified_tris, face)]),
     is_removed |-> FALSE]

\* The tet ids the loop over new_tets inserts into the list of vertex v, in the
\* order it inserts them: new tet k gets id n + k - 1.
InsertedIds(new_tets, n, v) ==
    LET slots == Vector([k \in 1..(4 * Len(new_tets)) |-> k - 1])
        hits  == SelectSeq(slots, LAMBDA k : new_tets[(k \div 4) + 1][(k % 4) + 1] = v)
    IN  Vector([h \in 1..Len(hits) |-> n + (hits[h] \div 4)])

RECURSIVE InsertAll(_, _)
InsertAll(A, ids) ==
    IF ids = <<>> THEN A
    ELSE LET B == set_insert(A, Head(ids)) IN InsertAll(B, Tail(ids))

\* The loop over new_tets: for every vertex of every new tet, the affected tets
\* are taken out of its list and the new tet's id is inserted.
InsertTets(vc, new_tets, n, affected) ==
    Vector([v \in 1..Len(vc) |->
        LET ids == InsertedIds(new_tets, n, v - 1)
        IN  IF ids = <<>> THEN vc[v] ELSE InsertAll(set_minus(vc[v], affected), ids)])

CountTags(attrs) ==
    Cardinality({<<i, j>> \in (1..Len(attrs)) \X (1..4) : attrs[i].prism_id[j] # -1})

\* A loop over the affected tets that marks none of them.
MarkRemovedSkipped(ta, affected) == ta

\* A loop over the affected tets that marks each of them removed and clears its tags.
MarkRemovedCleared(ta, affected) ==
    Vector([i \in 1..Len(ta) |->
        IF (i - 1) \in Range(affected)
        THEN [ta[i] EXCEPT !.is_removed = TRUE, !.prism_id = None4] ELSE ta[i]])

\* The loop over the affected tets: each of them is marked removed.
MarkRemoved(ta, affected) ==
    Vector([i \in 1..Len(ta) |->
        IF (i - 1) \in Range(affected) THEN [ta[i] EXCEPT !.is_removed = TRUE] ELSE ta[i]])

\* update_tetra_conn on the stores S.  Yields [S, why]: the stores it leaves, and
\* why is "" on return, else the message of the failed require (or "assert" in a
\* build with asserts).
update_tetra_conn(S, affected, new_tets, modified_pids, modified_tris, nd) ==
    LET entries  == MovedEntries(S.va, S.ta, affected)
        keys     == AssignerKeys(entries, modified_tris)
        removed  == MarkRemoved(S.ta, affected)
        averts   == UNION {Range(At(S.ta, t).conn) : t \in Range(affected)}
        vc0      == GrowTo(S.vc, Len(S.va), <<>>)
        vc1      == Vector([v \in 1..Len(vc0) |->
                        IF (v - 1) \in averts THEN set_minus(vc0[v], affected) ELSE vc0[v]])
        attrs    == Vector([k \in 1..Len(new_tets) |->
                        NewTetAttr(S.va, new_tets[k], entries, modified_pids, modified_tris)])
        cnt      == CountTags(attrs)
    IN  IF ~nd /\ \E k \in 1..Len(entries) : entries[k].pid # -1 /\ entries[k].face[1] = -1
        THEN [S |-> [S EXCEPT !.ta = removed, !.vc = vc0], why |-> "assert"]
        ELSE [S |-> [S EXCEPT !.ta = removed \o attrs,
                              !.vc = InsertTets(vc1, new_tets, Len(S.ta), affected)],
              why |-> IF Len(modified_tris) > cnt
                      THEN "Some new prisms are not assigned!"
                      ELSE IF modified_tris = <<>> /\ Cardinality(keys) # cnt
                      THEN "Internal edge should not lose any tag."
                      ELSE ""]

\* ------------------------------------------------------------ sanity checker

Live(ta) == {i \in 0..(Len(ta) - 1) : ~At(ta, i).is_removed}

\* The sorted vertices of a tet, as the number of times each vertex occurs in it.
TetKey(conn) == [x \in Range(conn) |-> Cardinality({j \in 1..4 : conn[j] = x})]

FacesOf(conn) == {sorted_face(conn, j) : j \in 0..3}

\* (1) every non-removed tet is valid.
SanityValid(va, ta) == \A i \in Live(ta) : tetra_validity(va, At(ta, i).conn)

\* (2) no two non-removed tets have the same sorted vertices, and no sorted face
\* occurs more than twice among the faces of the non-removed tets.
SanityNoDuplicate(ta) ==
    /\ \A i, k \in Live(ta) :
            i # k => TetKey(At(ta, i).conn) # TetKey(At(ta, k).conn)
    /\ \A i \in Live(ta) : \A j \in 0..3 :
            Cardinality({<<k, m>> \in Live(ta) \X (0..3) :
                            sorted_face(At(ta, k).conn, m) = sorted_face(At(ta, i).conn, j)}) <= 2

\* boundary_faces of the checker: sorted vertex triples of the tagged faces.
boundary_faces(ta) ==
    {sorted_face(At(ta, i).conn, j - 1) :
        <<i, j>> \in {<<i, j>> \in Live(ta) \X (1..4) : At(ta, i).prism_id[j] # -1}}

count_pc_faces(F) == Cardinality({i \in 1..Len(F) : F[i][1] # -1})

\* (3) as many tagged faces as non-empty shell slots.
SanityPrismCount(ta, F) == Cardinality(boundary_faces(ta)) = count_pc_faces(F)

\* (4) no vertex without shell id lies on the boundary of its own one-ring.
SanityInterior(va, ta, vc) ==
    \A i \in 0..(Len(va) - 1) :
        (At(va, i).mid_id < 0 /\ At(vc, i) # <<>>) =>
            LET nb == At(vc, i)
                once(f) == Cardinality({<<k, m>> \in (1..Len(nb)) \X (0..3) :
                                          sorted_face(At(ta, nb[k]).conn, m) = f}) = 1
            IN  \A k \in 1..Len(nb) : \A m \in 0..3 :
                    LET f == sorted_face(At(ta, nb[k]).conn, m)
                    IN  ~(once(f) /\ i \in Range(f))

\* (5) a vertex with a shell id sits exactly on its shell mid position; the
\* comparison against a slot past the end of pc.mid is undefined and yields ub.
SanityMid(va, mid, ub) ==
    \A i \in 0..(Len(va) - 1) :
        At(va, i).mid_id # -1 =>
            IF InRange(mid, At(va, i).mid_id)
            THEN At(va, i).pos = At(mid, At(va, i).mid_id)
            ELSE ub

tetmesh_sanity(S, ub) ==
    /\ SanityValid(S.va, S.ta)
    /\ SanityNoDuplicate(S.ta)
    /\ SanityPrismCount(S.ta, S.F)
    /\ SanityInterior(S.va, S.ta, S.vc)
    /\ SanityMid(S.va, S.mid, ub)

\* ------------------------------------------------------------------ editors

\* The outcome of a call: the stores it leaves, what it returned ("true", "false",
\* or "fatal" when it threw or aborted) and on which path.
Out(S, ret, why) == [S |-> S, ret |-> ret, why |-> why]

\* An end of an editor that reports a failed sanity check as a rejection.
CheckedRejects(S, ub) ==
    IF ~tetmesh_sanity(S, ub) THEN Out(S, "false", "Sanity Error") ELSE Out(S, "true", "")

\* The end of an editor: the sanity check of the stores it leaves.
Checked(S, ub) ==
    IF ~tetmesh_sanity(S, ub) THEN Out(S, "fatal", "Sanity Error") ELSE Out(S, "true", "")

\* The end of an editor from update_tetra_conn on: utc is what that call yields.
Connected(utc, ub) ==
    IF utc.why # "" THEN Out(utc.S, "fatal", utc.why) ELSE Checked(utc.S, ub)

\* Some vertex holds a shell id past the end of the shell vertex arrays.
Dangling(S) == \E i \in 1..Len(S.va) : S.va[i].mid_id >= Len(S.mid)

\* Children whose vertices are written in another order of the same orientation.
RECURSIVE SplitChildrenRotated(_, _, _, _, _)
SplitChildrenRotated(ta, affected, v0, v1, vx) ==
    IF affected = <<>> THEN <<>>
    ELSE LET c0 == replace(At(ta, Head(affected)).conn, v0, vx)
             c1 == replace(At(ta, Head(affected)).conn, v1, vx)
         IN  << <<c0[2], c0[3], c0[1], c0[4]>>, <<c1[2], c1[3], c1[1], c1[4]>> >>
             \o SplitChildrenRotated(ta, Tail(affected), v0, v1, vx)

\* The two children of every affected tet: v0 replaced by vx, then v1 replaced by vx.
RECURSIVE SplitChildren(_, _, _, _, _)
SplitChildren(ta, affected, v0, v1, vx) ==
    IF affected = <<>> THEN <<>>
    ELSE <<replace(At(ta, Head(affected)).conn, v0, vx),
           replace(At(ta, Head(affected)).conn, v1, vx)>>
         \o SplitChildren(ta, Tail(affected), v0, v1, vx)

\* A rollback that pops two vertices.
SplitRollbackTwice(S) ==
    Out([S EXCEPT !.va = PopBack(PopBack(S.va)), !.top = PopBack(S.top),
                  !.base = PopBack(S.base), !.mid = PopBack(S.mid)],
        "false", "rollback")

\* rollback of split_edge: pops the vertex and one entry of each shell vertex array.
SplitRollback(S) ==
    IF S.top = <<>> \/ S.base = <<>> \/ S.mid = <<>>
    THEN Out(S, "fatal", "pop_back on an empty vector")
    ELSE Out([S EXCEPT !.va = PopBack(S.va), !.top = PopBack(S.top),
                       !.base = PopBack(S.base), !.mid = PopBack(S.mid)],
             "false", "rollback")

\* split_edge(v0, v1).  flag is the shell oracle's answer (0 = success), nd the
\* build (asserts compiled out), g and ub what undefined reads yield.
split_edge(S, v0, v1, flag, nd, g, ub) ==
    LET affected == set_inter(At(S.vc, v0), At(S.vc, v1))
        vx       == Len(S.va)
        bnd_pris == edge_adjacent_boundary_face(S.ta, S.vc, v0, v1)
        new_tets == SplitChildren(S.ta, affected, v0, v1, vx)
        isb      == bnd_pris # <<>>
        p_vx     == Len(S.mid)
        pv0      == At(S.va, v0).mid_id
        pv1      == At(S.va, v1).mid_id
        pos      == Midpoint(At(S.va, v0).pos, At(S.va, v1).pos)
        S1       == [S EXCEPT !.va = Append(S.va, [pos |-> pos, mid_id |-> -1])]
        S2       == IF isb
                    THEN [S1 EXCEPT
                            !.va = Put(S1.va, vx, [pos |-> pos, mid_id |-> p_vx]),
                            !.top = Append(S.top, Midpoint(ReadAt(S.top, pv0, g),
                                                           ReadAt(S.top, pv1, g))),
                            !.base = Append(S.base, Midpoint(ReadAt(S.base, pv0, g),
                                                             ReadAt(S.base, pv1, g))),
                            !.mid = Append(S.mid, pos),
                            !.adj = Append(S.adj, (ReadAt(S.adj, pv0, 0)
                                                   + ReadAt(S.adj, pv1, 0)) \div 2)]
                    ELSE S1
        valid    == AllValid(S2.va, new_tets)
        pvx      == Len(S2.mid) - 1
        f0       == bnd_pris[1]
        f1       == bnd_pris[Len(bnd_pris)]
        moved    == <<replace(At(S.F, f0), pv0, pvx), replace(At(S.F, f1), pv0, pvx),
                      replace(At(S.F, f0), pv1, pvx), replace(At(S.F, f1), pv1, pvx)>>
        new_fid  == <<f0, f1, Len(S.F), Len(S.F) + 1>>
        S3       == IF isb
                    THEN update_pc(S2, <<f0, f1>>, new_fid, moved,
                                   ShellNewTracks(S2.tr, <<f0, f1>>, 4))
                    ELSE S2
    IN  IF ~nd /\ affected = <<>>
        THEN Out(S, "fatal", "assert")
        ELSE IF ~nd /\ isb /\ (Len(bnd_pris) # 2 \/ pv0 < 0 \/ pv1 < 0)
        THEN Out(S1, "fatal", "assert")
        ELSE IF ~valid
        THEN SplitRollback(S2)
        ELSE IF ~nd /\ isb /\ (\E f \in {f0, f1} : \E p \in {pv0, pv1} :
                                    FirstPos(At(S.F, f), p) = 0)
        THEN Out(S2, "fatal", "assert")
        ELSE IF isb /\ flag # 0
        THEN SplitRollback(S2)
        ELSE Connected(update_tetra_conn(S3, affected, new_tets,
                                         IF isb THEN new_fid ELSE <<>>,
                                         IF isb THEN triangle_shifts(moved) ELSE <<>>, nd),
                       ub)

Conns(ta, tets) == Vector([k \in 1..Len(tets) |-> At(ta, tets[k]).conn])

\* Replacement tets that merge v1 into another vertex than v2: the largest other
\* vertex of the first tet of v1.
CollapseTetsAside(ta, old_tids, v1, v2) ==
    IF old_tids = <<>> THEN <<>>
    ELSE LET others == Range(At(ta, Head(old_tids)).conn) \ {v1, v2}
             w      == CHOOSE x \in others : \A y \in others : y <= x
             kept   == SelectSeq(old_tids, LAMBDA t : id_in_array(At(ta, t).conn, w) < 0)
         IN  Vector([k \in 1..Len(kept) |->
                 Put(At(ta, kept[k]).conn, FirstPos(At(ta, kept[k]).conn, v1) - 1, w)])

\* The replacement tets of a collapse: the tets of v1 that do not contain v2, with
\* v1 replaced by v2.
RECURSIVE CollapseTets(_, _, _, _)
CollapseTets(ta, old_tids, v1, v2) ==
    IF old_tids = <<>> THEN <<>>
    ELSE LET line_tet == At(ta, Head(old_tids)).conn
         IN  (IF id_in_array(line_tet, v2) >= 0 THEN <<>>
              ELSE <<Put(line_tet, FirstPos(line_tet, v1) - 1, v2)>>)
             \o CollapseTets(ta, Tail(old_tids), v1, v2)

\* std::sort of a vector of integers.
SortAsc(q) ==
    LET rank(i) == Cardinality({j \in 1..Len(q) : q[j] < q[i] \/ (q[j] = q[i] /\ j < i)})
    IN  Vector([k \in 1..Len(q) |-> q[CHOOSE i \in 1..Len(q) : rank(i) = k - 1]])

RECURSIVE NbPidsOf(_, _, _)
NbPidsOf(ta, tets, v) ==
    IF tets = <<>> THEN <<>>
    ELSE LET a  == At(ta, Head(tets))
             js == SelectSeq(<<1, 2, 3, 4>>, LAMBDA j : a.conn[j] # v /\ a.prism_id[j] # -1)
         IN  Vector([k \in 1..Len(js) |-> a.prism_id[js[k]]]) \o NbPidsOf(ta, Tail(tets), v)

\* nb_pids: the tags of the tagged faces around v, sorted.
nb_pids(ta, vc, v) == SortAsc(NbPidsOf(ta, At(vc, v), v))

\* The shell triangles around u0 after the collapse u0 -> u1: the ones that hold
\* u1 too collapse out, the others get u0 replaced by u1 and keep their slot.
RECURSIVE CollapseShell(_, _, _, _)
CollapseShell(F, neighbor0, u0, u1) ==
    IF neighbor0 = <<>> THEN [old_fid |-> <<>>, new_fid |-> <<>>, moved_tris |-> <<>>]
    ELSE LET f    == Head(neighbor0)
             rest == CollapseShell(F, Tail(neighbor0), u0, u1)
             keep == id_in_array(At(F, f), u1) = -1
         IN  [old_fid |-> <<f>> \o rest.old_fid,
              new_fid |-> IF keep THEN <<f>> \o rest.new_fid ELSE rest.new_fid,
              moved_tris |-> IF keep THEN <<replace(At(F, f), u0, u1)>> \o rest.moved_tris
                             ELSE rest.moved_tris]

VertsOf(tets) == UNION {Range(tets[k]) : k \in 1..Len(tets)}

\* The link condition of collapse_edge: the new tets span one vertex less than
\* the old ones.
LinkCondition(old_tets, new_tets) ==
    Cardinality(VertsOf(new_tets)) = Cardinality(VertsOf(old_tets)) - 1

\* A size gate that lets every edit through.
OversizeNever(after_size, size_control) == FALSE

\* The size gate of collapse_edge, swap_edge and swap_face: the new tets exceed
\* the size-control scalar.
Oversize(after_size, size_control) == after_size > size_control

\* A quality gate that compares the qualities the wrong way round.
QualityWorseReversed(before_quality, after_quality, threshold) ==
    after_quality > threshold /\ before_quality > after_quality

\* The quality gate of collapse_edge: the collapse is rejected when the new tets
\* are above the threshold and worse than the old ones.
QualityWorse(before_quality, after_quality, threshold) ==
    after_quality > threshold /\ before_quality < after_quality

\* The end of collapse_edge from update_tetra_conn on: the attributes of v1 are
\* reset before the sanity check.
Collapsed(utc, v1, ub) ==
    IF utc.why # "" THEN Out(utc.S, "fatal", utc.why)
    ELSE Checked([utc.S EXCEPT !.va = Put(@, v1, [pos |-> <<0, 0, 0>>, mid_id |-> -1])], ub)

\* A test that rejects the collapse of an interior vertex into a shell vertex.
UnsupportedReversed(va, v1, v2) == At(va, v1).mid_id = -1 /\ At(va, v2).mid_id # -1

\* A test that lets every collapse through.
UnsupportedNever(va, v1, v2) == FALSE

\* The collapse collapse_edge does not support: v1 on the shell, v2 not.
Unsupported(va, v1, v2) == At(va, v1).mid_id # -1 /\ At(va, v2).mid_id = -1

\* collapse_edge(v1 -> v2).
collapse_edge(S, v1, v2, size_control, threshold, flag, nd, ub) ==
    LET nb1       == At(S.vc, v1)
        nb2       == At(S.vc, v2)
        affected  == nb1
        m1        == At(S.va, v1).mid_id
        m2        == At(S.va, v2).mid_id
        bnd_faces == edge_adjacent_boundary_face(S.ta, S.vc, v1, v2)
        old_tets  == Conns(S.ta, affected)
        before_quality == compute_quality(S.va, old_tets)
        new_tets  == CollapseTets(S.ta, nb1, v1, v2)
        after_quality == compute_quality(S.va, new_tets)
        after_size == max_tetra_sizes(S.va, new_tets)
        isb       == bnd_faces # <<>>
        neighbor0 == nb_pids(S.ta, S.vc, v1)
        neighbor1 == nb_pids(S.ta, S.vc, v2)
        sh        == IF isb THEN CollapseShell(S.F, neighbor0, m1, m2)
                     ELSE [old_fid |-> <<>>, new_fid |-> <<>>, moved_tris |-> <<>>]
        S1        == IF isb
                     THEN [update_pc(S, sh.old_fid, sh.new_fid, sh.moved_tris,
                                     ShellNewTracks(S.tr, sh.old_fid, Len(sh.moved_tris)))
                             EXCEPT !.va = Put(@, v1, [At(@, v1) EXCEPT !.mid_id = m2])]
                     ELSE S
        S2        == [S1 EXCEPT !.vc = Put(@, v1, <<>>)]
    IN  IF ~nd /\ set_inter(nb1, nb2) = <<>>
        THEN Out(S, "fatal", "assert")
        ELSE IF Unsupported(S.va, v1, v2)
        THEN Out(S, "false", "unsupported")
        ELSE IF bnd_faces = <<>> /\ m1 # -1 /\ m2 # -1
        THEN Out(S, "false", "internal edge connecting boundary vertices")
        ELSE IF \E k \in 1..Len(nb1) : FirstPos(At(S.ta, nb1[k]).conn, v1) = 0
        THEN Out(S, "fatal", "write before the start of an array")
        ELSE IF ~nd /\ Len(new_tets) >= Len(nb1)
        THEN Out(S, "fatal", "assert")
        ELSE IF ~LinkCondition(old_tets, new_tets)
        THEN Out(S, "false", "link condition")
        ELSE IF QualityWorse(before_quality, after_quality, threshold)
        THEN Out(S, "false", "quality")
        ELSE IF Oversize(after_size, size_control)
        THEN Out(S, "false", "size")
        ELSE IF ~AllValid(S.va, new_tets)
        THEN Out(S, "false", "invalid")
        ELSE IF ~nd /\ \E k \in 1..Len(bnd_faces) : At(S.F, bnd_faces[k])[1] = -1
        THEN Out(S, "fatal", "assert")
        ELSE IF isb /\ Len(neighbor0) + Len(neighbor1) < 4
        THEN Out(S, "fatal", "length_error")
        ELSE IF isb /\ ~nd /\ (\/ m1 < 0 \/ m2 < 0
                               \/ Len(sh.old_fid) # Len(sh.new_fid) + 2
                               \/ \E k \in 1..Len(neighbor0) :
                                    \/ At(S.F, neighbor0[k])[1] = -1
                                    \/ FirstPos(At(S.F, neighbor0[k]), m1) = 0)
        THEN Out(S, "fatal", "assert")
        ELSE IF isb /\ flag # 0
        THEN Out(S, "false", "shell")
        ELSE Collapsed(update_tetra_conn(S2, affected, new_tets, sh.new_fid,
                                         triangle_shifts(sh.moved_tris), nd),
                       v1, ub)

\* The replace of swap_edge: every occurrence of a becomes b.
replace_all(arr, a, b) == Vector([j \in 1..Len(arr) |-> IF arr[j] = a THEN b ELSE arr[j]])

\* The last j of js, as the source's loop over j leaves it; -1 if js is empty.
LastJ(js) == IF js = {} THEN -1 ELSE CHOOSE j \in js : \A m \in js : m <= j

\* A comparison that takes the better tets for the worse ones.
SwapWorseReversed(before_quality, after_quality) == before_quality > after_quality

\* The quality gate of swap_edge and swap_face: the new tets are worse than the
\* old ones.
SwapWorse(before_quality, after_quality) == before_quality < after_quality

\* A test that lets a cluster of more than three tets through.
NotThreeTetsBelow(affected) == Len(affected) < 3

\* The cluster swap_edge refuses: any number of tets around the edge but three.
NotThreeTets(affected) == Len(affected) # 3

\* swap_edge (3-2).
swap_edge(S, v1, v2, size_control, nd, ub) ==
    LET affected  == set_inter(At(S.vc, v1), At(S.vc, v2))
        bnd_faces == edge_adjacent_boundary_face(S.ta, S.vc, v1, v2)
        old_tets  == Conns(S.ta, affected)
        before_quality == compute_quality(S.va, old_tets)
        c0 == At(S.ta, affected[1]).conn
        c1 == At(S.ta, affected[2]).conn
        c2 == At(S.ta, affected[3]).conn
        In1 == {j \in 0..3 : c0[j + 1] # v1 /\ c0[j + 1] # v2 /\ id_in_array(c1, c0[j + 1]) # -1}
        In2 == {j \in 0..3 : c0[j + 1] # v1 /\ c0[j + 1] # v2 /\ id_in_array(c2, c0[j + 1]) # -1}
        Out0 == {j \in 0..3 : id_in_array(c0, c1[j + 1]) = -1}
        n1_id == IF LastJ(In1) = -1 THEN -1 ELSE c0[LastJ(In1) + 1]
        n2_id == IF LastJ(In2) = -1 THEN -1 ELSE c0[LastJ(In2) + 1]
        n0_id == IF LastJ(Out0) = -1 THEN -1 ELSE c1[LastJ(Out0) + 1]
        new_tets == <<replace_all(c0, v2, n0_id), replace_all(c1, v1, n2_id)>>
        after_size == max_tetra_sizes(S.va, new_tets)
        after_quality == compute_quality(S.va, new_tets)
    IN  IF ~nd /\ affected = <<>>
        THEN Out(S, "fatal", "assert")
        ELSE IF NotThreeTets(affected)
        THEN Out(S, "false", "not three tets")
        ELSE IF bnd_faces # <<>>
        THEN Out(S, "false", "boundary edge")
        ELSE IF ~nd /\ (n0_id = n1_id \/ n1_id = n2_id)
        THEN Out(S, "fatal", "assert")
        ELSE IF n0_id = -1 \/ n2_id = -1
        THEN Out(S, "fatal", "read before the start of an array")
        ELSE IF Oversize(after_size, size_control)
        THEN Out(S, "false", "size")
        ELSE IF SwapWorse(before_quality, after_quality)
        THEN Out(S, "false", "quality")
        ELSE IF ~AllValid(S.va, new_tets)
        THEN Out(S, "false", "invalid")
        ELSE Connected(update_tetra_conn(S, affected, new_tets, <<>>, <<>>, nd), ub)

\* find_other: the first vertex of tet that is not a vertex of tri.
find_other(tet, tri) ==
    LET js == {j \in 1..4 : id_in_array(tri, tet[j]) = -1}
    IN  IF js = {} THEN -1 ELSE tet[CHOOSE j \in js : \A m \in js : j <= m]

\* swap_face (2-3).
swap_face(S, v0, v1, v2, size_control, nd, ub) ==
    LET affected == set_inter(set_inter(At(S.vc, v0), At(S.vc, v1)), At(S.vc, v2))
        old_tets == Conns(S.ta, affected)
        before_quality == compute_quality(S.va, old_tets)
        t0 == affected[1]
        t1 == affected[Len(affected)]
        tri == <<v0, v1, v2>>
        u0 == find_other(At(S.ta, t0).conn, tri)
        u1 == find_other(At(S.ta, t1).conn, tri)
        c0 == At(S.ta, t0).conn
        new_tets == <<replace(c0, v0, u1), replace(c0, v1, u1), replace(c0, v2, u1)>>
        after_quality == compute_quality(S.va, new_tets)
        after_size == max_tetra_sizes(S.va, new_tets)
    IN  IF Len(affected) # 2
        THEN IF ~nd /\ edge_adjacent_boundary_face(S.ta, S.vc, v0, v1) = <<>>
             THEN Out(S, "fatal", "assert")
             ELSE Out(S, "false", "not two tets")
        ELSE IF ~AllValid(S.va, new_tets)
        THEN Out(S, "false", "invalid")
        ELSE IF SwapWorse(before_quality, after_quality)
        THEN Out(S, "false", "quality")
        ELSE IF Oversize(after_size, size_control)
        THEN Out(S, "false", "size")
        ELSE Connected(update_tetra_conn(S, affected, new_tets, <<>>, <<>>, nd), ub)

\* ------------------------------------------------------------ smooth_vertex

NoAnswer == <<>>

SmoothTypes == {"kInteriorNewton", "kSurfaceSnap", "kShellPan", "kShellZoom", "kShellRotate"}

\* A rollback that puts the position of the vertex back and leaves the pillar.
SmoothRollbackPosOnly(S, P, v0, why) ==
    Out([P EXCEPT !.va = Put(P.va, v0, [At(P.va, v0) EXCEPT !.pos = At(S.va, v0).pos])],
        "false", why)

\* rollback of smooth_vertex: from the stores P the call has reached, the position
\* of v0 and, for a shell vertex, its pillar are put back to what they were in S.
SmoothRollback(S, P, v0, why) ==
    LET pv0 == At(S.va, v0).mid_id
        P0  == [P EXCEPT !.va = Put(P.va, v0, [At(P.va, v0) EXCEPT !.pos = At(S.va, v0).pos])]
    IN  IF pv0 # -1
        THEN Out([P0 EXCEPT !.base = Put(P.base, pv0, At(S.base, pv0)),
                            !.mid = Put(P.mid, pv0, At(S.mid, pv0)),
                            !.top = Put(P.top, pv0, At(S.top, pv0))],
                 "false", why)
        ELSE Out(P0, "false", why)

\* smooth_vertex(smooth_type, v0, size_control).  The answers of the geometric
\* oracles are arguments: newton is the position get_newton_position yields,
\* direction what smoother_direction yields, snap the layer of the pillar at which
\* get_snap_position meets the reference surface, prism the growth zoom/rotate give
\* the pillar (NoAnswer, "none": the oracle has no answer), flag the shell oracle's
\* answer.
smooth_vertex(S, smooth_type, v0, size_control, newton, direction, snap, prism, flag, nd, ub) ==
    LET tet_nb   == At(S.vc, v0)
        pv0      == At(S.va, v0).mid_id
        neighbor_pris == NbPidsOf(S.ta, tet_nb, v0)
        shell    == smooth_type # "kInteriorNewton"
        pan      == smooth_type = "kShellPan"
        snap_mid == smooth_type \in {"kSurfaceSnap", "kShellPan"}
        P1       == IF pan /\ direction # NoAnswer
                    THEN [S EXCEPT !.base = Put(S.base, pv0, VAdd(At(S.base, pv0), direction)),
                                   !.mid = Put(S.mid, pv0, VAdd(At(S.mid, pv0), direction)),
                                   !.top = Put(S.top, pv0, VAdd(At(S.top, pv0), direction))]
                    ELSE S
        snapped  == IF snap = "base" THEN At(P1.base, pv0)
                    ELSE IF snap = "top" THEN At(P1.top, pv0)
                    ELSE At(P1.mid, pv0)
        P2       == IF ~shell
                    THEN [S EXCEPT !.va = Put(S.va, v0, [At(S.va, v0) EXCEPT !.pos = newton])]
                    ELSE IF snap_mid
                    THEN [P1 EXCEPT !.va = Put(S.va, v0, [At(S.va, v0) EXCEPT !.pos = snapped]),
                                    !.mid = Put(P1.mid, pv0, snapped)]
                    ELSE [S EXCEPT !.base = Put(S.base, pv0, VSub(At(S.base, pv0), prism)),
                                   !.top = Put(S.top, pv0, VAdd(At(S.top, pv0), prism))]
        old_tets == Conns(S.ta, tet_nb)
        old_fids == neighbor_pris
        moved    == Vector([k \in 1..Len(old_fids) |-> At(S.F, old_fids[k])])
        P3       == update_pc(P2, old_fids, old_fids, moved,
                              ShellNewTracks(P2.tr, old_fids, Len(old_fids)))
    IN  IF ~nd /\ \E k \in 1..Len(neighbor_pris) : neighbor_pris[k] >= Len(S.F)
        THEN Out(S, "fatal", "assert")
        ELSE IF pv0 # -1 /\ ~(InRange(S.base, pv0) /\ InRange(S.mid, pv0) /\ InRange(S.top, pv0))
        THEN IF ub THEN Out(S, "fatal", "access past the end of a vector")
             ELSE Out(S, "false", "rollback")
        ELSE IF ~nd /\ (IF shell THEN pv0 = -1 \/ neighbor_pris = <<>>
                        ELSE neighbor_pris # <<>>)
        THEN Out(S, "fatal", "assert")
        ELSE IF pan /\ direction = NoAnswer
        THEN SmoothRollback(S, S, v0, "No better location.")
        ELSE IF snap_mid /\ snap = "none"
        THEN IF ~nd /\ smooth_type = "kSurfaceSnap"
             THEN Out(P1, "fatal", "assert")
             ELSE SmoothRollback(S, P1, v0, "No pan.")
        ELSE IF shell /\ ~snap_mid /\ prism = NoAnswer
        THEN SmoothRollback(S, S, v0, "No better prism.")
        ELSE IF pv0 = -1 /\ max_tetra_sizes(P2.va, old_tets) > size_control
        THEN SmoothRollback(S, P2, v0, "size")
        ELSE IF ~AllValid(P2.va, old_tets)
        THEN SmoothRollback(S, P2, v0, "invalid")
        ELSE IF pv0 = -1
        THEN Out(P2, "true", "")
        ELSE IF ~nd /\ old_fids = <<>>
        THEN Out(P2, "fatal", "assert")
        ELSE IF flag # 0
        THEN SmoothRollback(S, P2, v0, "shell")
        ELSE Out(P3, "true", "")

\* --------------------------------------------------------------- compaction

\* PrismCage::cleanup_empty_faces: drops the empty triangle slots and the shell
\* vertices no remaining triangle refers to, renumbers both in their order, and
\* yields the old-to-new maps (-1: dropped).  A triangle index past the end of the
\* vertex arrays is an undefined read, which yields g.
cleanup_empty_faces(top, base, mid, F, tr, g) ==
    LET keptF == Ascending({f \in 0..(Len(F) - 1) : At(F, f)[1] # -1})
        refd  == UNION {Range(At(F, keptF[k])) : k \in 1..Len(keptF)}
        keptP == Ascending(refd)
        n     == Max(Len(mid), IF keptP = <<>> THEN 0 ELSE keptP[Len(keptP)] + 1)
    IN  [top  |-> Vector([k \in 1..Len(keptP) |-> ReadAt(top, keptP[k], g)]),
         base |-> Vector([k \in 1..Len(keptP) |-> ReadAt(base, keptP[k], g)]),
         mid  |-> Vector([k \in 1..Len(keptP) |-> ReadAt(mid, keptP[k], g)]),
         F    |-> Vector([k \in 1..Len(keptF) |->
                    Vector([j \in 1..3 |-> id_in_array(keptP, At(F, keptF[k])[j])])]),
         tr   |-> Vector([k \in 1..Len(keptF) |-> At(tr, keptF[k])]),
         vid_map |-> Vector([p \in 1..n |-> id_in_array(keptP, p - 1)]),
         face_map_o2n |-> Vector([f \in 1..Len(F) |-> id_in_array(keptF, f - 1)])]

\* compact_tetmesh with a shell.
compact_tetmesh(S, nd, g, ub) ==
    LET keptV == Ascending({i \in 0..(Len(S.va) - 1) : At(S.vc, i) # <<>>})
        keptT == Ascending(Live(S.ta))
        vert_map_old2new(i) == id_in_array(keptV, i)
        va1   == Vector([k \in 1..Len(keptV) |-> At(S.va, keptV[k])])
        ta1   == Vector([k \in 1..Len(keptT) |->
                    [At(S.ta, keptT[k]) EXCEPT
                        !.conn = Vector([j \in 1..4 |-> vert_map_old2new(@[j])])]])
        vc1   == Vector([v \in 1..Len(va1) |-> SortedTets(ta1, v - 1)])
        cl    == cleanup_empty_faces(S.top, S.base, S.mid, S.F, S.tr, g)
        va2   == Vector([k \in 1..Len(va1) |->
                    IF va1[k].mid_id = -1 THEN va1[k]
                    ELSE [va1[k] EXCEPT !.mid_id = At(cl.vid_map, @)]])
        ta2   == Vector([k \in 1..Len(ta1) |->
                    [ta1[k] EXCEPT
                        !.prism_id = Vector([j \in 1..4 |->
                                        IF @[j] = -1 THEN -1 ELSE At(cl.face_map_o2n, @[j])])]])
        S1    == [S EXCEPT !.va = va1, !.ta = ta1, !.vc = vc1]
        S2    == [S1 EXCEPT !.va = va2, !.ta = ta2, !.top = cl.top, !.base = cl.base,
                            !.mid = cl.mid, !.F = cl.F, !.tr = cl.tr]
    IN  IF \E k \in 1..Len(ta1) : \E j \in 1..4 : ta1[k].conn[j] = -1
        THEN Out(S, "fatal", IF nd THEN "write before the start of an array" ELSE "assert")
        ELSE IF \/ \E k \in 1..Len(va1) : va1[k].mid_id >= Len(cl.vid_map)
                \/ \E k \in 1..Len(ta1) : \E j \in 1..4 : ta1[k].prism_id[j] >= Len(S.F)
                \/ Len(cl.vid_map) > Len(S.mid)
        THEN IF ub THEN Out(S1, "fatal", "access past the end of a vector")
             ELSE Out([S2 EXCEPT
                        !.va = Vector([k \in 1..Len(va1) |->
                                    IF va1[k].mid_id >= Len(cl.vid_map)
                                    THEN [va1[k] EXCEPT !.mid_id = -1] ELSE va2[k]])],
                      "true", "")
        ELSE IF ~nd /\ \E k \in 1..Len(ta2) : \E j \in 1..4 :
                            ta1[k].prism_id[j] # -1 /\ ta2[k].prism_id[j] = -1
        THEN Out(S2, "fatal", "assert")
        ELSE Out(S2, "true", "")

\* ------------------------------------------------------------------ actions

Verts == 0..(Len(vert_attrs) - 1)

\* The driver makes a call while the process lives and its budget lasts.  A call
\* that left every store as it was is recorded in last and not continued from: the
\* calls that can follow it are the calls that can follow the state it was made in.
Running ==
    /\ last.ret # "fatal"
    /\ ~last.noop
    /\ count.calls < MaxCalls

\* The stores and the record of the call after a call with outcome R.  sc is the
\* size-control scalar and th the quality threshold of the call (-1: none), exists
\* says that the edge or face the call names is one of the mesh.
Install(R, op, a, b, c, sc, th, exists) ==
    LET changed == R.S # Stores
    IN  /\ vert_attrs' = R.S.va
        /\ tet_attrs' = R.S.ta
        /\ vert_conn' = R.S.vc
        /\ pc_top' = R.S.top
        /\ pc_base' = R.S.base
        /\ pc_mid' = R.S.mid
        /\ pc_F' = R.S.F
        /\ pc_track_ref' = R.S.tr
        /\ target_adjustment' = R.S.adj
        /\ ndebug' = ndebug
        /\ last' = [op |-> op, ret |-> R.ret, why |-> R.why, a |-> a, b |-> b, c |-> c,
                    sc |-> sc, th |-> th, exists |-> exists, noop |-> ~changed]
        /\ count' = IF ~changed THEN count
                    ELSE [calls   |-> count.calls + 1,
                          smooth  |-> count.smooth + (IF op = "smooth" THEN 1 ELSE 0),
                          compact |-> count.compact + (IF op = "compact" THEN 1 ELSE 0),
                          absent  |-> count.absent + (IF exists THEN 0 ELSE 1)]
        /\ before' = [ta |-> tet_attrs, vc |-> vert_conn, F |-> pc_F]
        /\ UNCHANGED <<vertex_attrs, m_tet_connectivity, m_vertex_connectivity,
                       m_face_attribute, ada_last>>

\* What an undefined read yields; reads are defined while no shell id lies past the
\* end of the shell vertex arrays.
UbBool == IF Dangling(Stores) THEN BOOLEAN ELSE {TRUE}

UbPos == IF Dangling(Stores) THEN Garbage ELSE {<<0, 0, 0>>}

\* The answers of the shell oracle: it is asked only about a boundary edge.
Flags(v0, v1) ==
    IF edge_adjacent_boundary_face(tet_attrs, vert_conn, v0, v1) = <<>> THEN {0} ELSE {0, 1}

Common(v0, v1) == set_inter(At(vert_conn, v0), At(vert_conn, v1)) # <<>>

SplitEdge ==
    \E v0 \in Verts, v1 \in Verts :
        /\ Running
        /\ v0 < v1
        /\ \E flag \in Flags(v0, v1), g \in UbPos, ub \in UbBool :
                LET R == split_edge(Stores, v0, v1, flag, ndebug, g, ub)
                IN  Install(R, "split", v0, v1, -1, -1, -1, Common(v0, v1))

\* Values the driver passes as the size-control scalar.
SizeControls == {8, 1000000}

\* The (size-control scalar, option.collapse_quality_threshold) pairs of a collapse;
\* 2753 is the quality of the tets of the ring, so that a collapse can come out
\* exactly at the threshold.
Policies == {<<8, 0>>, <<1000000, 0>>, <<1000000, 2753>>, <<1000000, 1000000>>}

CollapseEdge ==
    \E v1 \in Verts, v2 \in Verts :
        /\ Running
        /\ v1 # v2
        /\ \E po \in Policies, flag \in Flags(v1, v2), ub \in UbBool :
                LET R == collapse_edge(Stores, v1, v2, po[1], po[2], flag, ndebug, ub)
                IN  Install(R, "collapse", v1, v2, -1, po[1], po[2], Common(v1, v2))

SwapEdge ==
    \E v1 \in Verts, v2 \in Verts :
        /\ Running
        /\ v1 < v2
        /\ \E sc \in SizeControls, ub \in UbBool :
                LET R == swap_edge(Stores, v1, v2, sc, ndebug, ub)
                IN  Install(R, "swap_edge", v1, v2, -1, sc, -1, Common(v1, v2))

SwapFace ==
    \E v0 \in Verts, v1 \in Verts, v2 \in Verts :
        /\ Running
        /\ v0 < v1 /\ v1 < v2
        /\ \E sc \in SizeControls, ub \in UbBool :
                LET R == swap_face(Stores, v0, v1, v2, sc, ndebug, ub)
                IN  Install(R, "swap_face", v0, v1, v2, sc, -1,
                            set_inter(set_inter(At(vert_conn, v0), At(vert_conn, v1)),
                                      At(vert_conn, v2)) # <<>>)

InGrid(p) == \A k \in 1..3 : p[k] >= 0 /\ p[k] <= MaxCoord

\* The displacement the oracles of smooth_vertex answer with.
Moves == {<<0, 0, 1>>}

\* The driver smooths a vertex that has tets, an interior one with kInteriorNewton
\* and one on the shell with a shell type.
SmoothVertex ==
    \E v0 \in Verts, smooth_type \in SmoothTypes :
        /\ Running
        /\ count.smooth < MaxSmooth
        /\ At(vert_conn, v0) # <<>>
        /\ (smooth_type = "kInteriorNewton") = (At(vert_attrs, v0).mid_id = -1)
        /\ \E d \in Moves, sc \in SizeControls, ub \in UbBool :
            \E newton \in {VAdd(At(vert_attrs, v0).pos, d)} :
            \E direction \in IF smooth_type = "kShellPan" THEN {NoAnswer, d} ELSE {NoAnswer} :
            \E snap \in IF smooth_type \in {"kSurfaceSnap", "kShellPan"}
                        THEN {"none", "mid", "top"} ELSE {"none"} :
            \E prism \in IF smooth_type \in {"kShellZoom", "kShellRotate"}
                         THEN {NoAnswer, d} ELSE {NoAnswer} :
            \E flag \in {0, 1} :
                LET R == smooth_vertex(Stores, smooth_type, v0, sc, newton, direction, snap,
                                       prism, flag, ndebug, ub)
                IN  /\ \A k \in 1..Len(R.S.va) : InGrid(R.S.va[k].pos)
                    /\ Install(R, "smooth", v0, -1, -1, sc, -1, TRUE)

Compact ==
    /\ Running
    /\ count.compact < MaxCompact
    /\ \E g \in UbPos, ub \in UbBool :
            LET R == compact_tetmesh(Stores, ndebug, g, ub)
            IN  Install(R, "compact", -1, -1, -1, -1, -1, TRUE)

Next == SplitEdge \/ CollapseEdge \/ SwapEdge \/ SwapFace \/ SmoothVertex \/ Compact

Spec == Init /\ [][Next]_vars

\* ------------------------------------------------------------------ AdaMesh
\* The vertex rounding and the quality of AdaMesh (src/src/batm/AdaMesh_smooth.cpp).
\* An exact (rational) coordinate is a whole number of 1/Grain units and a
\* floating-point coordinate a whole number of units, so that an exact position
\* need not be representable in floating point.

\* Exact coordinates come in steps of 1/Grain.
Grain == 4

\* apps::Rational(double): the exact value of a floating-point number.
to_rational(f) == <<Grain * f[1], Grain * f[2], Grain * f[3]>>

\* to_double: the representable number at or next below an exact value.
to_double(r) == <<r[1] \div Grain, r[2] \div Grain, r[3] \div Grain>>

\* The floating-point positions of the vertices of the input mesh of AdaMesh.
AdaV == << <<0, 0, 2>>, <<2, 0, 2>>, <<0, 2, 2>>, <<0, 0, 3>>, <<0, 0, 0>> >>

\* Its tets: two tets on the two sides of the face (0, 1, 2).
AdaT == << <<0, 1, 2, 3>>, <<0, 2, 1, 4>> >>

\* How far an exact position may lie from the exact value of the vertex's position
\* in the input mesh, in steps of 1/Grain: on it, a step above, two steps below.
Offsets == {<<0, 0, 0>>, <<0, 0, 1>>, <<0, 0, -2>>}

\* The attributes a vertex can start with: built from a floating-point position
\* (rounded), or from an exact position (not rounded) whose floating-point
\* position is its to_double.
VertexAttributes(p) ==
    {[m_posf |-> p, m_posr |-> to_rational(p), rounded |-> TRUE,
      m_is_on_surface |-> FALSE, on_bbox_faces |-> <<>>]}
    \cup {[m_posf |-> to_double(VAdd(to_rational(p), o)),
           m_posr |-> VAdd(to_rational(p), o), rounded |-> FALSE,
           m_is_on_surface |-> FALSE, on_bbox_faces |-> <<>>] : o \in Offsets}

\* The tets of AdaT that are in the mesh: both, or the first one only, which
\* leaves vertex 4 removed.
AdaLive == {{0, 1}, {0}}

\* TetMesh::tuple_from_vertex(i).is_valid: the vertex is in the mesh.
vertex_is_valid(i) == ~At(m_vertex_connectivity, i).m_is_removed

\* TetMesh::Tuple::is_valid of a tet tuple: the tet is in the mesh.
tet_is_valid(t) == ~At(m_tet_connectivity, t).m_is_removed

\* TetMesh::get_one_ring_tets_for_vertex: the valid tets that hold the vertex.
get_one_ring_tets_for_vertex(i) ==
    SelectSeq(At(m_vertex_connectivity, i).m_conn_tets, tet_is_valid)

\* TetMesh::oriented_tet_vids.
oriented_tet_vids(t) == At(m_tet_connectivity, t).m_indices

\* AdaMesh::is_invert: an invalid tuple is not inverted, every valid one is.
is_invert(t) == IF ~tet_is_valid(t) THEN FALSE ELSE TRUE

\* A revert that clears the flag and keeps the floating-point value as the exact
\* position.
RevertedFlagOnly(a, old_pos) == [a EXCEPT !.rounded = FALSE]

\* The revert of round: the flag is cleared and the exact position restored.
Reverted(a, old_pos) == [a EXCEPT !.rounded = FALSE, !.m_posr = old_pos]

\* AdaMesh::round(i): yields the vertex attributes it leaves and what it returns.
round(va, i) ==
    LET a         == At(va, i)
        old_pos   == a.m_posr
        trusted   == [a EXCEPT !.m_posr = to_rational(a.m_posf), !.rounded = TRUE]
        conn_tets == get_one_ring_tets_for_vertex(i)
    IN  IF ~vertex_is_valid(i) THEN [va |-> va, ret |-> TRUE]
        ELSE IF a.rounded THEN [va |-> va, ret |-> TRUE]
        ELSE IF \E k \in 1..Len(conn_tets) : is_invert(conn_tets[k])
        THEN [va |-> Put(va, i, Reverted(trusted, old_pos)), ret |-> FALSE]
        ELSE [va |-> Put(va, i, trusted), ret |-> TRUE]

\* What the energy functions yield for a flat tet (a division by zero).
InfEnergy == -2

\* The AMIPS energy of the tet with corners T, (sum of squared edge lengths)^3 /
\* (16 (6 volume)^2), 27 for the regular tet, rounded down.
AMIPS_energy(T) ==
    LET d == Orient3D(T[1], T[2], T[3], T[4])
        l == Norm2(VSub(T[2], T[1])) + Norm2(VSub(T[3], T[1])) + Norm2(VSub(T[4], T[1]))
             + Norm2(VSub(T[3], T[2])) + Norm2(VSub(T[4], T[2])) + Norm2(VSub(T[4], T[3]))
    IN  IF d = 0 THEN InfEnergy ELSE (l * l * l) \div (16 * d * d)

\* The value quality reports for an energy that is not finite or below the
\* least energy of a tet.
Clamped == 1000000

MinEnergy == 27

\* The end of quality: energies that are not finite or below MinEnergy are clamped.
Clamp(energy) == IF energy = InfEnergy \/ energy < MinEnergy THEN Clamped ELSE energy

\* The value of energy before the loop of quality has set it.
Unset == -1

\* A quality that trusts the floating-point positions of all four vertices.
quality_float(va, t) ==
    LET vs == oriented_tet_vids(t)
    IN  [ret  |-> Clamp(AMIPS_energy([j \in 1..4 |-> At(va, vs[j]).m_posf])),
         path |-> "float"]

\* AdaMesh::quality(t): the loop copies floating-point positions into T until it
\* meets a vertex that is not rounded, and then takes the energy of the exact
\* positions of all four vertices; the floating-point energy of T is taken only
\* when the loop left energy unset, which an exact energy equal to Unset would do
\* as well, with T filled up to the vertex that is not rounded only (the other
\* slots are not initialised; the model reads the exact positions there).
\* Yields the value and the path taken.
quality(va, t) ==
    LET vs     == oriented_tet_vids(t)
        exact  == {j \in 1..4 : ~At(va, vs[j]).rounded}
        R      == [j \in 1..4 |-> At(va, vs[j]).m_posr]
        energy == IF exact # {} THEN AMIPS_energy(R) ELSE Unset
        T      == [j \in 1..4 |->
                    IF \E k \in exact : k <= j THEN At(va, vs[j]).m_posr
                    ELSE At(va, vs[j]).m_posf]
    IN  IF energy # Unset THEN [ret |-> Clamp(energy), path |-> "rational"]
        ELSE [ret |-> Clamp(AMIPS_energy(T)),
              path |-> IF exact = {} THEN "float" ELSE "mixed"]

\* AdaMesh::FaceAttributes as constructed.
DefaultFaceAttributes ==
    [track_prisms |-> {}, m_is_surface_fs |-> FALSE, m_is_bbox_fs |-> -1, m_surface_tags |-> -1]

\* TetMesh::get_face_vertices of the four faces of tet t, sorted.
FaceVids(tc, t) == {sorted_face(At(tc, t).m_indices, j) : j \in 0..3}

\* The valid tets of a tet store.
ValidTets(tc) == {t \in 0..(Len(tc) - 1) : ~At(tc, t).m_is_removed}

\* The faces of the valid tets.
MeshFaces(tc) == UNION {FaceVids(tc, t) : t \in ValidTets(tc)}

\* How the faces on the outside of the input mesh are marked: as faces of the
\* tracked surface, each with its own tag, or as faces of the bounding box.
FacePaints == {"surface", "bbox"}

\* The attributes of the faces of the input mesh: a face of one tet only is
\* marked, the face between the two tets is as constructed.
InitialFaceAttributes(tc, paint) ==
    [f \in MeshFaces(tc) |->
        LET k == 100 * f[1] + 10 * f[2] + f[3]
        IN  IF Cardinality({t \in ValidTets(tc) : f \in FaceVids(tc, t)}) # 1
            THEN DefaultFaceAttributes
            ELSE IF paint = "surface"
            THEN [track_prisms |-> {k}, m_is_surface_fs |-> TRUE, m_is_bbox_fs |-> -1,
                  m_surface_tags |-> k]
            ELSE [track_prisms |-> {}, m_is_surface_fs |-> FALSE, m_is_bbox_fs |-> k,
                  m_surface_tags |-> -1]]

adavars == <<vertex_attrs, m_tet_connectivity, m_vertex_connectivity, m_face_attribute,
             ada_last>>

tetvars == <<vert_attrs, tet_attrs, vert_conn, pc_top, pc_base, pc_mid, pc_F,
             pc_track_ref, target_adjustment, ndebug, last, count, before>>

\* No AdaMesh call yet.
AdaIdle == [op |-> "init", arg |-> -1, ret |-> TRUE, value |-> -1, path |-> ""]

\* AdaMesh is built on the two tets, or on the first of them, with every vertex
\* rounded or not and its outer faces marked; the stores of the editors are empty.
AdaInit ==
    /\ \E live \in AdaLive :
        /\ m_tet_connectivity =
              Vector([t \in 1..Len(AdaT) |->
                        [m_indices |-> AdaT[t], m_is_removed |-> (t - 1) \notin live]])
        /\ m_vertex_connectivity =
              Vector([i \in 1..Len(AdaV) |->
                LET ts == Ascending({t \in live : (i - 1) \in Range(At(AdaT, t))})
                IN  [m_conn_tets |-> ts, m_is_removed |-> ts = <<>>]])
    /\ \E a0 \in VertexAttributes(AdaV[1]), a1 \in VertexAttributes(AdaV[2]),
          a2 \in VertexAttributes(AdaV[3]), a3 \in VertexAttributes(AdaV[4]),
          a4 \in VertexAttributes(AdaV[5]) :
            vertex_attrs = <<a0, a1, a2, a3, a4>>
    /\ \E paint \in FacePaints :
            m_face_attribute = InitialFaceAttributes(m_tet_connectivity, paint)
    /\ ada_last = AdaIdle
    /\ vert_attrs = <<>> /\ tet_attrs = <<>> /\ vert_conn = <<>>
    /\ pc_top = <<>> /\ pc_base = <<>> /\ pc_mid = <<>> /\ pc_F = <<>>
    /\ pc_track_ref = <<>> /\ target_adjustment = <<>>
    /\ ndebug = FALSE
    /\ last = [op |-> "init", ret |-> "true", why |-> "", a |-> -1, b |-> -1, c |-> -1,
               sc |-> -1, th |-> -1, exists |-> TRUE, noop |-> FALSE]
    /\ count = [calls |-> 0, smooth |-> 0, compact |-> 0, absent |-> 0]
    /\ before = [ta |-> <<>>, vc |-> <<>>, F |-> <<>>]

\* A call of round on a vertex of the mesh.
Round ==
    \E i \in 0..(Len(vertex_attrs) - 1) :
        LET R == round(vertex_attrs, i)
        IN  /\ vertex_attrs' = R.va
            /\ ada_last' = [op |-> "round", arg |-> i, ret |-> R.ret, value |-> -1, path |-> ""]
            /\ UNCHANGED <<m_tet_connectivity, m_vertex_connectivity, m_face_attribute>>
            /\ UNCHANGED tetvars

\* A call of quality on a tet of the mesh.
Quality ==
    \E t \in 0..(Len(m_tet_connectivity) - 1) :
        /\ tet_is_valid(t)
        /\ LET Q == quality(vertex_attrs, t)
           IN  ada_last' = [op |-> "quality", arg |-> t, ret |-> TRUE,
                            value |-> Q.ret, path |-> Q.path]
        /\ UNCHANGED <<vertex_attrs, m_tet_connectivity, m_vertex_connectivity,
                       m_face_attribute>>
        /\ UNCHANGED tetvars

AdaNext == Round \/ Quality

AdaSpec == AdaInit /\ [][AdaNext]_vars

\* ------------------------------------------------------ AdaMesh: Split hooks
\* The before and after hooks of the Split operator
\* (src/src/batm/AdaMesh_smooth.cpp).  A face is named by its sorted vertices;
\* m_face_attribute maps the faces of the mesh to their attributes.

\* At most this many splits are made.
MaxSplits == 1

\* TetMesh::get_incident_tets_for_edge: the valid tets that hold v1 and v2.
get_incident_tets_for_edge(tc, v1, v2) ==
    Ascending({t \in ValidTets(tc) : {v1, v2} \subseteq Range(At(tc, t).m_indices)})

\* Split::before: the attributes of every face of the incident tets, by sorted
\* vertices.
Split_before(tc, fa, incident_tets) ==
    [f \in UNION {FaceVids(tc, t) : t \in Range(incident_tets)} |-> fa[f]]

\* The topological split of wmtk::SplitEdge: every incident tet is removed and
\* gives two tets, one with v1 and one with v2 replaced by the new vertex ux.
RECURSIVE SplitTetChildren(_, _, _, _, _)
SplitTetChildren(tc, incident_tets, v1, v2, ux) ==
    IF incident_tets = <<>> THEN <<>>
    ELSE <<[m_indices |-> replace(At(tc, Head(incident_tets)).m_indices, v1, ux),
            m_is_removed |-> FALSE],
           [m_indices |-> replace(At(tc, Head(incident_tets)).m_indices, v2, ux),
            m_is_removed |-> FALSE]>>
         \o SplitTetChildren(tc, Tail(incident_tets), v1, v2, ux)

SplitTets(tc, incident_tets, v1, v2, ux) ==
    Vector([t \in 1..Len(tc) |->
        IF (t - 1) \in Range(incident_tets) THEN [tc[t] EXCEPT !.m_is_removed = TRUE]
        ELSE tc[t]])
    \o SplitTetChildren(tc, incident_tets, v1, v2, ux)

\* The vertex connectivity of a tet store with n vertices.
VertexConnectivity(tc, n) ==
    Vector([i \in 1..n |->
        LET ts == Ascending({t \in ValidTets(tc) : (i - 1) \in Range(At(tc, t).m_indices)})
        IN  [m_conn_tets |-> ts, m_is_removed |-> ts = <<>>]])

\* The midpoint of two exact positions; exact for the positions of the input
\* mesh and the vertices of up to two splits of it.
RationalMid(a, b) == <<(a[1] + b[1]) \div 2, (a[2] + b[2]) \div 2, (a[3] + b[3]) \div 2>>

\* The midpoint of two floating-point positions, rounded to a representable one.
FloatMid(a, b) == <<(a[1] + b[1]) \div 2, (a[2] + b[2]) \div 2, (a[3] + b[3]) \div 2>>

\* Split::vert_updater: the attributes of the new vertex.  inverted says that
\* is_invert held for some new tet.
vert_updater(va, v1_id, v2_id, inverted, is_edge_on_surface) ==
    LET a1   == At(va, v1_id)
        a2   == At(va, v2_id)
        posf == FloatMid(a1.m_posf, a2.m_posf)
        posr == RationalMid(a1.m_posr, a2.m_posr)
    IN  [m_posf |-> IF inverted THEN to_double(posr) ELSE posf,
         m_posr |-> IF inverted THEN posr ELSE to_rational(posf),
         rounded |-> ~inverted,
         m_is_on_surface |-> is_edge_on_surface,
         on_bbox_faces |-> set_inter(a1.on_bbox_faces, a2.on_bbox_faces)]

\* The key face_updater looks a face of a new tet up with: when the face holds
\* ux, then for b = 0, 1 in turn, if it holds edge_verts[b] the slot of ux is
\* set to the other endpoint; the result is sorted.
face_key(vids, ux, edge_verts) ==
    LET ux_id == FirstPos(vids, ux)
        s0    == IF ux_id # 0 /\ FirstPos(vids, edge_verts[1]) # 0
                 THEN [vids EXCEPT ![ux_id] = edge_verts[2]] ELSE vids
        s1    == IF ux_id # 0 /\ FirstPos(s0, edge_verts[2]) # 0
                 THEN [s0 EXCEPT ![ux_id] = edge_verts[1]] ELSE s0
    IN  Sort3(s1)

\* Split::face_updater: every face of a new tet whose key is in the cache gets
\* the cached attributes; the others keep what their slot holds.  slots is the
\* attribute store as the topological split left it.
face_updater(tc, slots, cache_changed_faces, new_tets, ux, edge_verts) ==
    [f \in DOMAIN slots |->
        IF /\ f \in UNION {FaceVids(tc, t) : t \in new_tets}
           /\ face_key(f, ux, edge_verts) \in DOMAIN cache_changed_faces
        THEN cache_changed_faces[face_key(f, ux, edge_verts)]
        ELSE slots[f]]

\* The mesh of AdaInit with every exact position on its floating-point
\* position, so that the midpoint of an edge is an exact position of the model.
SplitInit ==
    /\ AdaInit
    /\ \A i \in 1..Len(vertex_attrs) :
            vertex_attrs[i].m_posr = to_rational(vertex_attrs[i].m_posf)

\* A split of the edge (v1, v2) through the Split operator: before, the
\* topological split, then after (vert_updater and face_updater).  A face the
\* split makes starts with what its slot of the attribute store holds: the
\* attributes as constructed, or those of some face that was there before.
Split ==
    \E v1 \in 0..(Len(vertex_attrs) - 1), v2 \in 0..(Len(vertex_attrs) - 1) :
        /\ v1 # v2
        /\ Len(vertex_attrs) < Len(AdaV) + MaxSplits
        /\ get_incident_tets_for_edge(m_tet_connectivity, v1, v2) # <<>>
        /\ \E stale \in {DefaultFaceAttributes}
                        \cup {m_face_attribute[f] : f \in DOMAIN m_face_attribute},
              is_edge_on_surface \in BOOLEAN :
            LET tc       == m_tet_connectivity
                incident == get_incident_tets_for_edge(tc, v1, v2)
                ux       == Len(vertex_attrs)
                cache    == Split_before(tc, m_face_attribute, incident)
                tc1      == SplitTets(tc, incident, v1, v2, ux)
                new_tets == Len(tc)..(Len(tc1) - 1)
                slots    == [f \in MeshFaces(tc1) |->
                                IF f \in DOMAIN m_face_attribute
                                THEN m_face_attribute[f] ELSE stale]
            IN  /\ m_tet_connectivity' = tc1
                /\ m_vertex_connectivity' = VertexConnectivity(tc1, ux + 1)
                /\ vertex_attrs' =
                      Append(vertex_attrs,
                             vert_updater(vertex_attrs, v1, v2,
                                          \E t \in new_tets : is_invert(t)',
                                          is_edge_on_surface))
                /\ m_face_attribute' =
                      face_updater(tc1, slots, cache, new_tets, ux, <<v1, v2>>)
                /\ ada_last' = [op |-> "split", arg |-> <<v1, v2>>, ret |-> TRUE,
                                value |-> ux, path |-> ""]
                /\ UNCHANGED tetvars

SplitNext == Split

SplitSpec == SplitInit /\ [][SplitNext]_vars

\* ------------------------------------------------------------------- claims

\* The four editors that rewrite connectivity.
Editors == {"split", "collapse", "swap_edge", "swap_face"}

\* The non-removed tets, as 1-based positions in ta.
Alive(ta) == {t \in 1..Len(ta) : ~ta[t].is_removed}

HasVertex(conn, v) == \E j \in 1..4 : conn[j] = v

\* The process lives: the last call returned.
Returned == last.ret # "fatal"

\* The sorted vertices of the face of conn opposite to position j (1..4).
OppositeFace(conn, j) ==
    LET vs == {conn[m] : m \in (1..4) \ {j}}
    IN  CHOOSE f \in vs \X vs \X vs : f[1] <= f[2] /\ f[2] <= f[3] /\ {f[1], f[2], f[3]} = vs

\* The distinct faces of non-removed tets that carry a tag.
TaggedFaces ==
    {OppositeFace(tet_attrs[t].conn, j) :
        <<t, j>> \in {<<t, j>> \in Alive(tet_attrs) \X (1..4) : tet_attrs[t].prism_id[j] # -1}}

NonEmptySlots(F) == {i \in 1..Len(F) : F[i][1] # -1}

\* C1: a call of split_edge, collapse_edge, swap_edge or swap_face that returns
\* false leaves the vertex array, the tet array, the adjacency index and the
\* shell arrays (top, base, mid, F, tracked sets) as they were before the call.
C1_RejectedCallChangesNothing ==
    [][(last'.op \in Editors /\ last'.ret = "false") =>
            UNCHANGED <<vert_attrs, tet_attrs, vert_conn, pc_top, pc_base, pc_mid, pc_F,
                        pc_track_ref>>]_vars

\* A split of an interior edge was rejected for an invalid child and the shell
\* vertex arrays are shorter than the largest shell id in use.
C1_ShellPoppedByInteriorSplit ==
    /\ last.op = "split" /\ last.ret = "false" /\ last.why = "rollback"
    /\ \E i \in 1..Len(vert_attrs) : vert_attrs[i].mid_id >= Len(pc_mid)

\* C2: in the state prepare_tet_info builds and after any sequence of calls, the
\* number of distinct tagged faces of non-removed tets equals the number of shell
\* triangle slots whose first index is not -1.
C2_TaggedFacesMatchShellSlots ==
    Returned => Cardinality(TaggedFaces) = Cardinality(NonEmptySlots(pc_F))

\* After two calls, the last an accepted split of a boundary edge, the shell holds
\* more triangles than it started with.
C2_AfterBoundarySplit ==
    /\ last.op = "split" /\ last.ret = "true" /\ count.calls = 2
    /\ Cardinality(NonEmptySlots(pc_F)) > Len(RingF)

\* C3: tet t is in the adjacency list of vertex v if and only if t is a
\* non-removed tet and v is one of its four vertices.
C3_AdjacencyIsIncidence ==
    Returned =>
        /\ Len(vert_conn) = Len(vert_attrs)
        /\ \A v \in 1..Len(vert_conn) :
                Range(vert_conn[v])
                    = {t - 1 : t \in {t \in Alive(tet_attrs) : HasVertex(tet_attrs[t].conn, v - 1)}}

\* A compaction that dropped removed tets, after an edit that removed them.
C3_AfterCompaction ==
    /\ last.op = "compact" /\ last.ret = "true" /\ ~last.noop
    /\ \E v \in 1..Len(vert_conn) : vert_conn[v] # <<>>

\* C4: from a mesh whose tets are all valid, after any sequence of calls every
\* non-removed tet of the mesh has positive oriented volume.
C4_EveryLiveTetValid ==
    Returned =>
        \A t \in Alive(tet_attrs) :
            LET c == tet_attrs[t].conn
            IN  Orient3D(vert_attrs[c[1] + 1].pos, vert_attrs[c[2] + 1].pos,
                         vert_attrs[c[3] + 1].pos, vert_attrs[c[4] + 1].pos) > 0

\* Two accepted edits in a row, the second one a split.
C4_AfterTwoEdits ==
    /\ last.op = "split" /\ last.ret = "true" /\ count.calls = 2
    /\ Cardinality(Alive(tet_attrs)) > Len(CoreTets)

\* C5: after any sequence of split_edge, collapse_edge, swap_edge, swap_face and
\* smooth_vertex calls, accepted or rejected, every vertex with a shell id has a
\* shell id that is an index of the shell vertex arrays, and sits exactly on the
\* mid-layer position at that index.
C5_ShellIdsAreOnMid ==
    (Returned /\ count.compact = 0) =>
        \A i \in 1..Len(vert_attrs) :
            vert_attrs[i].mid_id # -1 =>
                /\ vert_attrs[i].mid_id >= 0
                /\ vert_attrs[i].mid_id < Len(pc_mid)
                /\ vert_attrs[i].mid_id < Len(pc_top)
                /\ vert_attrs[i].mid_id < Len(pc_base)
                /\ vert_attrs[i].pos = pc_mid[vert_attrs[i].mid_id + 1]

\* C6: from a mesh that passes tetmesh_sanity, no sequence of split_edge,
\* collapse_edge, swap_edge and swap_face calls on edges and faces of the mesh ends
\* in a 'Sanity Error' or in a failed require of update_tetra_conn.
C6_NoFatalState ==
    ~ /\ last.op \in Editors
      /\ last.exists
      /\ count.smooth = 0 /\ count.compact = 0 /\ count.absent = 0
      /\ last.ret = "fatal"
      /\ last.why \in {"Sanity Error", "Some new prisms are not assigned!",
                       "Internal edge should not lose any tag."}

\* C7: split_edge on two vertices without a common non-removed tet returns false
\* and changes no store.
C7_SplitWithoutCommonTet ==
    (last.op = "split" /\ ~last.exists) => (last.ret = "false" /\ last.noop)

\* C8: an accepted split_edge(v0, v1) with k affected tets appends one vertex,
\* marks exactly the k affected tets removed, appends exactly 2k non-removed tets,
\* for each affected tet one copy with v0 replaced by the new vertex and one with
\* v1 replaced by it, and leaves no non-removed tet that contains both v0 and v1.
C8_SplitRewritesTets ==
    [][(last'.op = "split" /\ last'.ret = "true") =>
        LET v0  == last'.a
            v1  == last'.b
            vx  == Len(vert_attrs)
            n   == Len(tet_attrs)
            aff == {t \in Alive(tet_attrs) :
                        HasVertex(tet_attrs[t].conn, v0) /\ HasVertex(tet_attrs[t].conn, v1)}
            k   == Cardinality(aff)
            new == (n + 1)..Len(tet_attrs')
            Sub(conn, a) == <<IF conn[1] = a THEN vx ELSE conn[1],
                              IF conn[2] = a THEN vx ELSE conn[2],
                              IF conn[3] = a THEN vx ELSE conn[3],
                              IF conn[4] = a THEN vx ELSE conn[4]>>
        IN  /\ Len(vert_attrs') = vx + 1
            /\ SubSeq(vert_attrs', 1, vx) = vert_attrs
            /\ Len(tet_attrs') = n + 2 * k
            /\ \A t \in 1..n :
                    /\ tet_attrs'[t].conn = tet_attrs[t].conn
                    /\ tet_attrs'[t].is_removed = (tet_attrs[t].is_removed \/ t \in aff)
            /\ \A u \in new : ~tet_attrs'[u].is_removed
            /\ \A t \in aff : \A a \in {v0, v1} :
                    Cardinality({u \in new : tet_attrs'[u].conn = Sub(tet_attrs[t].conn, a)}) = 1
            /\ \A u \in Alive(tet_attrs') :
                    ~(HasVertex(tet_attrs'[u].conn, v0) /\ HasVertex(tet_attrs'[u].conn, v1))
    ]_vars

\* An accepted split of the axis of the ring: three tets removed, six appended.
C8_AxisSplit ==
    /\ last.op = "split" /\ last.ret = "true" /\ last.exists
    /\ Cardinality({t \in 1..Len(tet_attrs) : tet_attrs[t].is_removed}) = 3
    /\ Len(tet_attrs) = 9

\* C9: an accepted split of a boundary edge (exactly two tagged faces contain both
\* endpoints) appends one shell vertex, whose index is the shell id of the new
\* vertex, writes two of the four new triangles into the slots of the two old ones
\* and appends the other two, so that the non-empty slots grow by two; an accepted
\* split of an interior edge changes no shell array.
C9_SplitRewritesShell ==
    [][(last'.op = "split" /\ last'.ret = "true" /\ last'.exists) =>
        LET v0  == last'.a
            v1  == last'.b
            vx  == Len(vert_attrs)
            tagged == {<<t, j>> \in Alive(tet_attrs) \X (1..4) :
                            /\ tet_attrs[t].prism_id[j] # -1
                            /\ tet_attrs[t].conn[j] # v0 /\ tet_attrs[t].conn[j] # v1
                            /\ HasVertex(tet_attrs[t].conn, v0)
                            /\ HasVertex(tet_attrs[t].conn, v1)}
            old == {tet_attrs[tj[1]].prism_id[tj[2]] + 1 : tj \in tagged}
            nF  == Len(pc_F)
        IN  /\ Cardinality(tagged) = 2 =>
                /\ Len(pc_mid') = Len(pc_mid) + 1
                /\ Len(pc_top') = Len(pc_top) + 1
                /\ Len(pc_base') = Len(pc_base) + 1
                /\ SubSeq(pc_mid', 1, Len(pc_mid)) = pc_mid
                /\ SubSeq(pc_top', 1, Len(pc_top)) = pc_top
                /\ SubSeq(pc_base', 1, Len(pc_base)) = pc_base
                /\ vert_attrs'[vx + 1].mid_id = Len(pc_mid)
                /\ Len(pc_F') = nF + 2
                /\ \A i \in (1..nF) \ old : pc_F'[i] = pc_F[i]
                /\ \A i \in old \cup {nF + 1, nF + 2} :
                        /\ pc_F'[i][1] # -1
                        /\ Len(pc_mid) \in Range(pc_F'[i])
                /\ Cardinality(NonEmptySlots(pc_F')) = Cardinality(NonEmptySlots(pc_F)) + 2
            /\ tagged = {} =>
                UNCHANGED <<pc_top, pc_base, pc_mid, pc_F, pc_track_ref>>
    ]_vars

\* An accepted split of a boundary edge: the new vertex is on the shell.
C9_BoundarySplit ==
    /\ last.op = "split" /\ last.ret = "true" /\ last.exists
    /\ vert_attrs[Len(vert_attrs)].mid_id = Len(pc_mid) - 1
    /\ Len(pc_F) = Len(RingF) + 2

Merged(ta, v1, v2) ==
    [t \in {t \in Alive(ta) : ~(HasVertex(ta[t].conn, v1) /\ HasVertex(ta[t].conn, v2))} |->
        {IF ta[t].conn[j] = v1 THEN v2 ELSE ta[t].conn[j] : j \in 1..4}]

\* The members of star that a chain of tets sharing a face links to a member of R.
RECURSIVE FaceLinked(_, _, _)
FaceLinked(R, star, M) ==
    LET R1 == R \cup {u \in star : \E t \in R : Cardinality(M[t] \cap M[u]) = 3}
    IN  IF R1 = R THEN R ELSE FaceLinked(R1, star, M)

\* Merging v1 into v2 would leave two tets on the same vertices, a face in more
\* than two tets, or tets around v2 that no chain of shared faces connects.
NonManifoldMerge(ta, v1, v2) ==
    LET M    == Merged(ta, v1, v2)
        D    == DOMAIN M
        star == {t \in D : v2 \in M[t]}
    IN  \/ \E t, u \in D : t # u /\ M[t] = M[u]
        \/ \E t \in D : \E x \in M[t] :
                Cardinality({u \in D : (M[t] \ {x}) \subseteq M[u]}) > 2
        \/ \E t \in star : FaceLinked({t}, star, M) # star

WorstQuality(va, conns) ==
    LET q == {tetra_quality(va[c[1] + 1].pos, va[c[2] + 1].pos, va[c[3] + 1].pos,
                            va[c[4] + 1].pos) : c \in conns}
    IN  IF q = {} THEN 0 ELSE CHOOSE x \in q : \A y \in q : y <= x

\* The tets a call appended.
Appended == {tet_attrs'[u].conn : u \in (Len(tet_attrs) + 1)..Len(tet_attrs')}

\* The non-removed tets that contain v, before the call.
Incident(v) == {tet_attrs[t].conn : t \in {t \in Alive(tet_attrs) : HasVertex(tet_attrs[t].conn, v)}}

\* C13: every accepted collapse_edge(v1 -> v2) has replacement tets whose quality
\* is not worse (not higher) than the quality of the tets incident to v1 before the
\* edit, or is below the collapse quality threshold of the call.
C13_CollapseQualityGate ==
    [][(last'.op = "collapse" /\ last'.ret = "true") =>
        LET before_quality == WorstQuality(vert_attrs, Incident(last'.a))
            after_quality  == WorstQuality(vert_attrs, Appended)
        IN  after_quality <= before_quality \/ after_quality < last'.th]_vars

\* C13, amended: every accepted collapse_edge(v1 -> v2) has replacement tets whose
\* quality is not worse than the quality of the tets incident to v1 before the
\* edit, or is not above the collapse quality threshold of the call.
C13_CollapseQualityAtMostThreshold ==
    [][(last'.op = "collapse" /\ last'.ret = "true") =>
        LET before_quality == WorstQuality(vert_attrs, Incident(last'.a))
            after_quality  == WorstQuality(vert_attrs, Appended)
        IN  after_quality <= before_quality \/ after_quality <= last'.th]_vars

\* The collapse of the vertex that the split of the edge (3, 4) of the ring
\* appended, into vertex 3: it is accepted with replacement tets that are worse
\* than the children of the split and exactly at the threshold.
C13_AcceptedAtThreshold ==
    /\ last.op = "collapse" /\ last.ret = "true" /\ last.th = 2753
    /\ count.calls = 2
    /\ last.a = Len(RingV) /\ last.b = 3 /\ Len(pc_mid) = Len(RingV) + 1
    /\ tet_attrs[2].is_removed /\ ~tet_attrs[1].is_removed /\ ~tet_attrs[3].is_removed
    /\ ~tet_attrs[Len(tet_attrs)].is_removed
    /\ WorstQuality(vert_attrs, {tet_attrs[t].conn : t \in
            {t \in Alive(tet_attrs) : HasVertex(tet_attrs[t].conn, last.b)}}) = last.th

\* The rotations of a triangle.
Rotations(f) == {f, <<f[2], f[3], f[1]>>, <<f[3], f[1], f[2]>>}

\* C14: an accepted collapse_edge(v1 -> v2) with both endpoints on the shell
\* empties exactly the two shell triangle slots that contain both shell ids, keeps
\* every other shell triangle that contained v1's shell id in its own slot with
\* v1's shell id replaced by v2's, leaves the other slots alone, so that the
\* non-empty slots decrease by exactly 2, and leaves no non-empty shell triangle
\* that refers to v1's former shell id.
C14_CollapseRewritesShell ==
    [][(/\ last'.op = "collapse" /\ last'.ret = "true"
        /\ vert_attrs[last'.a + 1].mid_id # -1
        /\ vert_attrs[last'.b + 1].mid_id # -1) =>
        LET u0    == vert_attrs[last'.a + 1].mid_id
            u1    == vert_attrs[last'.b + 1].mid_id
            at0   == {i \in NonEmptySlots(pc_F) : u0 \in Range(pc_F[i])}
            both  == {i \in at0 : u1 \in Range(pc_F[i])}
            Sub(f) == <<IF f[1] = u0 THEN u1 ELSE f[1], IF f[2] = u0 THEN u1 ELSE f[2],
                        IF f[3] = u0 THEN u1 ELSE f[3]>>
        IN  /\ Cardinality(both) = 2
            /\ Len(pc_F') = Len(pc_F)
            /\ \A i \in both : pc_F'[i] = None3
            /\ \A i \in at0 \ both : pc_F'[i] \in Rotations(Sub(pc_F[i]))
            /\ \A i \in (1..Len(pc_F)) \ at0 : pc_F'[i] = pc_F[i]
            /\ Cardinality(NonEmptySlots(pc_F')) = Cardinality(NonEmptySlots(pc_F)) - 2
            /\ \A i \in NonEmptySlots(pc_F') : u0 \notin Range(pc_F'[i])
    ]_vars

\* An accepted collapse along a boundary edge of an input mesh: two shell slots
\* are empty and the shell vertex of v1 is in no triangle.
C14_BoundaryCollapse ==
    /\ last.op = "collapse" /\ last.ret = "true" /\ count.calls = 1
    /\ Cardinality(NonEmptySlots(pc_F)) = Len(pc_F) - 2
    /\ \A i \in NonEmptySlots(pc_F) : last.a \notin Range(pc_F[i])
    /\ \E i \in NonEmptySlots(pc_F) : last.b \in Range(pc_F[i])

\* The tagged faces of non-removed tets that contain both v1 and v2, before the call.
TaggedAt(v1, v2) ==
    {<<t, j>> \in Alive(tet_attrs) \X (1..4) :
        /\ tet_attrs[t].prism_id[j] # -1
        /\ tet_attrs[t].conn[j] # v1 /\ tet_attrs[t].conn[j] # v2
        /\ HasVertex(tet_attrs[t].conn, v1) /\ HasVertex(tet_attrs[t].conn, v2)}

C16_SwapEdgeRewritesTets ==
    [][(last'.op = "swap_edge" /\ last'.ret = "true") =>
        LET v1   == last'.a
            v2   == last'.b
            n    == Len(tet_attrs)
            aff  == {t \in Alive(tet_attrs) :
                        HasVertex(tet_attrs[t].conn, v1) /\ HasVertex(tet_attrs[t].conn, v2)}
            ring == UNION {Range(tet_attrs[t].conn) : t \in aff} \ {v1, v2}
        IN  /\ Cardinality(aff) = 3
            /\ Cardinality(ring) = 3
            /\ Len(tet_attrs') = n + 2
            /\ \A t \in 1..n :
                    /\ tet_attrs'[t].conn = tet_attrs[t].conn
                    /\ tet_attrs'[t].is_removed = (tet_attrs[t].is_removed \/ t \in aff)
            /\ ~tet_attrs'[n + 1].is_removed /\ ~tet_attrs'[n + 2].is_removed
            /\ {Range(tet_attrs'[n + 1].conn), Range(tet_attrs'[n + 2].conn)}
                    = {ring \cup {v1}, ring \cup {v2}}
            /\ \A u \in Alive(tet_attrs') :
                    ~(HasVertex(tet_attrs'[u].conn, v1) /\ HasVertex(tet_attrs'[u].conn, v2))
            /\ Cardinality(Alive(tet_attrs')) = Cardinality(Alive(tet_attrs)) - 1
            /\ vert_attrs' = vert_attrs
    ]_vars

\* The swap of the axis of the ring: its three tets are removed and two tets on the
\* ring triangle are in their place.
C16_AxisSwapped ==
    /\ last.op = "swap_edge" /\ last.ret = "true"
    /\ Len(tet_attrs) = Len(RingTets) + 2
    /\ \A t \in 1..Len(RingTets) : tet_attrs[t].is_removed
    /\ \A t \in Alive(tet_attrs) : {2, 3, 4} \subseteq Range(tet_attrs[t].conn)

\* The tets a call marked removed.
Replaced == {tet_attrs[t].conn : t \in {t \in Alive(tet_attrs) : tet_attrs'[t].is_removed}}

\* C17: for every accepted swap_edge and every accepted swap_face, the quality
\* (largest energy, higher is worse) of the tets the call created is less than or
\* equal to the quality of the tets it replaced.
C17_SwapNeverWorsens ==
    [][(last'.op \in {"swap_edge", "swap_face"} /\ last'.ret = "true") =>
        /\ Appended # {} /\ Replaced # {}
        /\ WorstQuality(vert_attrs, Appended) <= WorstQuality(vert_attrs, Replaced)]_vars

\* An accepted swap_face: three tets stand where two were.
C17_FaceSwapped ==
    /\ last.op = "swap_face" /\ last.ret = "true"
    /\ \E t \in Alive(tet_attrs) :
            /\ {t + 1, t + 2} \subseteq Alive(tet_attrs) /\ Len(tet_attrs) = t + 2
            /\ Cardinality({u \in 1..Len(tet_attrs) :
                    /\ tet_attrs[u].is_removed
                    /\ {last.a, last.b, last.c} \subseteq Range(tet_attrs[u].conn)}) = 2

\* The tag of the face on the vertices f in the non-removed tets of ta, as a set:
\* empty when no such tet has that face.
TagsOn(ta, f) ==
    {ta[t].prism_id[j] : <<t, j>> \in {<<t, j>> \in Alive(ta) \X (1..4) :
        {ta[t].conn[m] : m \in (1..4) \ {j}} = f}}

WorstSize(va, conns) ==
    LET r == {circumradi2(va[c[1] + 1].pos, va[c[2] + 1].pos, va[c[3] + 1].pos,
                          va[c[4] + 1].pos) : c \in conns}
    IN  IF r = {} THEN 0 ELSE CHOOSE x \in r : \A y \in r : y <= x

\* C19: after an accepted split_edge, collapse_edge, swap_edge or swap_face every
\* tet the call created has size at most the size-control value; split_edge is
\* given no such value, so its new tets are held against every value the driver
\* may work with.
C19_EveryEditorBoundsSize ==
    [][(last'.op \in Editors /\ last'.ret = "true") =>
        \A sc \in (IF last'.op = "split" THEN SizeControls ELSE {last'.sc}) :
            WorstSize(vert_attrs', Appended) <= sc]_vars

\* C19, amended: after an accepted collapse_edge, swap_edge or swap_face every tet
\* the call created has size at most the size-control value of the call.
C19_GatedEditorsBoundSize ==
    [][(last'.op \in {"collapse", "swap_edge", "swap_face"} /\ last'.ret = "true") =>
        WorstSize(vert_attrs, Appended) <= last'.sc]_vars

\* An edit accepted under the small size-control value that created a tet.
C19_AcceptedUnderSmallSize ==
    /\ last.op \in {"collapse", "swap_edge", "swap_face"} /\ last.ret = "true"
    /\ last.sc = 8
    /\ ~tet_attrs[Len(tet_attrs)].is_removed
    /\ last.b \in Range(tet_attrs[Len(tet_attrs)].conn)

\* The live tets of a tet store, as vertex sets.
LiveSets(ta) == {Range(ta[t].conn) : t \in Alive(ta)}

\* C20: if split_edge(v0, v1) is accepted and makes the vertex vx, and the next
\* call, collapse_edge(vx -> v0), is accepted too, then the live tets, as vertex
\* sets, are those before the split, there are as many of them as before the
\* split, and if the edge was a boundary edge there are as many non-empty shell
\* slots as before the split.
C20_SplitCollapseRestores ==
    [][(/\ last.op = "split" /\ last.ret = "true" /\ ~last.noop
        /\ last'.op = "collapse" /\ last'.ret = "true"
        /\ last'.a = Len(vert_attrs) - 1
        /\ last'.b = last.a) =>
        /\ LiveSets(tet_attrs') = LiveSets(before.ta)
        /\ Cardinality(Alive(tet_attrs')) = Cardinality(Alive(before.ta))
        /\ (edge_adjacent_boundary_face(before.ta, before.vc, last.a, last.b) # <<>> =>
               Cardinality(NonEmptySlots(pc_F')) = Cardinality(NonEmptySlots(before.F)))
    ]_vars

\* A boundary edge of the ring was split and the new vertex collapsed back into
\* the lower end of the edge: the tets and the shell triangle count of the ring
\* are back, with two shell slots more than the ring has, both empty.
C20_BoundarySplitUndone ==
    /\ last.op = "collapse" /\ last.ret = "true" /\ count.calls = 2
    /\ last.a = Len(RingV) /\ last.a = Len(vert_attrs) - 1
    /\ before.F # pc_F
    /\ Len(pc_F) = Len(RingF) + 2
    /\ Cardinality(NonEmptySlots(pc_F)) = Len(RingF)
    /\ LiveSets(tet_attrs) = {Range(RingTets[t]) : t \in 1..Len(RingTets)}

RankIn(K, x) == Cardinality({y \in K : y < x})

\* The vertices with a non-empty adjacency list.
Adjacent(vc) == {i \in 0..(Len(vc) - 1) : At(vc, i) # <<>>}

\* The shell vertices some non-empty shell triangle refers to.
Referred(F) == UNION {Range(F[i]) : i \in NonEmptySlots(F)}

\* C22: a compact_tetmesh that returns keeps exactly the non-removed tets and the
\* vertices with non-empty adjacency, in their order, numbered from 0; every tet's
\* connectivity is rewritten through the old-to-new vertex map, every shell id and
\* every tag through the maps of the shell, whose kept vertices and triangles are
\* the old ones renumbered; no removed tet and no isolated vertex is left.
C22_CompactRenumbers ==
    [][(last'.op = "compact" /\ last'.ret = "true") =>
        LET keptV == Adjacent(vert_conn)
            keptT == Live(tet_attrs)
            keptF == {i - 1 : i \in NonEmptySlots(pc_F)}
            keptP == Referred(pc_F)
        IN  /\ Len(vert_attrs') = Cardinality(keptV)
            /\ Len(vert_conn') = Cardinality(keptV)
            /\ Len(tet_attrs') = Cardinality(keptT)
            /\ Len(pc_F') = Cardinality(keptF)
            /\ Len(pc_mid') = Cardinality(keptP)
            /\ \A p \in keptP :
                    /\ InRange(pc_mid, p)
                    /\ At(pc_mid', RankIn(keptP, p)) = At(pc_mid, p)
                    /\ At(pc_top', RankIn(keptP, p)) = At(pc_top, p)
                    /\ At(pc_base', RankIn(keptP, p)) = At(pc_base, p)
            /\ \A f \in keptF : \A j \in 1..3 :
                    At(pc_F', RankIn(keptF, f))[j] = RankIn(keptP, At(pc_F, f)[j])
            /\ \A i \in keptV :
                    LET old == At(vert_attrs, i)
                        new == At(vert_attrs', RankIn(keptV, i))
                    IN  /\ new.pos = old.pos
                        /\ IF old.mid_id = -1 THEN new.mid_id = -1
                           ELSE /\ old.mid_id \in keptP
                                /\ new.mid_id = RankIn(keptP, old.mid_id)
            /\ \A t \in keptT :
                    LET old == At(tet_attrs, t)
                        new == At(tet_attrs', RankIn(keptT, t))
                    IN  /\ ~new.is_removed
                        /\ \A j \in 1..4 :
                            /\ old.conn[j] \in keptV
                            /\ new.conn[j] = RankIn(keptV, old.conn[j])
                            /\ IF old.prism_id[j] = -1 THEN new.prism_id[j] = -1
                               ELSE /\ old.prism_id[j] \in keptF
                                    /\ new.prism_id[j] = RankIn(keptF, old.prism_id[j])
            /\ \A v \in 0..(Len(vert_conn') - 1) :
                    /\ At(vert_conn', v) # <<>>
                    /\ Range(At(vert_conn', v)) =
                          {t \in 0..(Len(tet_attrs') - 1) : v \in Range(At(tet_attrs', t).conn)}
    ]_vars

\* C23: a round(v) that returns false leaves the exact position and the rounded
\* flag of the vertex as they were before the call (not rounded, exact position
\* restored); round on a vertex that is rounded already returns true and changes
\* nothing.
C23_FailedRoundReverts ==
    [][ada_last'.op = "round" =>
        LET old == At(vertex_attrs, ada_last'.arg)
            new == At(vertex_attrs', ada_last'.arg)
        IN  /\ ~ada_last'.ret =>
                /\ new.m_posr = old.m_posr
                /\ new.rounded = old.rounded
                /\ ~new.rounded
                /\ vertex_attrs' = vertex_attrs
            /\ old.rounded => (ada_last'.ret /\ vertex_attrs' = vertex_attrs)
    ]_vars

\* A round that returned false on a vertex whose exact position is not the exact
\* value of its floating-point position: the revert had something to restore.
C23_RoundReverted ==
    /\ ada_last.op = "round" /\ ~ada_last.ret
    /\ ~At(vertex_attrs, ada_last.arg).rounded
    /\ At(vertex_attrs, ada_last.arg).m_posr
          # to_rational(At(vertex_attrs, ada_last.arg).m_posf)

\* The tet t is flat or inverted when vertex i is taken at its floating-point
\* position and the other vertices at their exact positions.
InvertedWhenTrusted(va, t, i) ==
    LET vs == oriented_tet_vids(t)
        P  == [j \in 1..4 |-> IF vs[j] = i THEN to_rational(At(va, i).m_posf)
                              ELSE At(va, vs[j]).m_posr]
    IN  Orient3D(P[1], P[2], P[3], P[4]) <= 0

\* C24: round(v) on a valid vertex that is not rounded and whose incident tets
\* all stay non-inverted when its floating-point position is trusted returns
\* true, sets the rounded flag and leaves the exact position equal to the
\* floating-point position; whenever round returns true the vertex is rounded.
C24_RoundTrustsFloat ==
    [][ada_last'.op = "round" =>
        LET i     == ada_last'.arg
            old   == At(vertex_attrs, i)
            new   == At(vertex_attrs', i)
            ring  == get_one_ring_tets_for_vertex(i)
        IN  /\ (/\ vertex_is_valid(i) /\ ~old.rounded
                /\ \A k \in 1..Len(ring) : ~InvertedWhenTrusted(vertex_attrs, ring[k], i)) =>
                    /\ ada_last'.ret
                    /\ new.rounded
                    /\ new.m_posf = old.m_posf
                    /\ new.m_posr = to_rational(new.m_posf)
            /\ ada_last'.ret => new.rounded
    ]_vars

\* C25: the quality of a tet with a vertex that is not rounded is the energy of
\* the exact positions of all four vertices, never of a mix of exact and
\* floating-point positions; the floating-point energy is used only when all four
\* vertices are rounded.
C25_QualityNeverMixes ==
    [][ada_last'.op = "quality" =>
        LET vs == oriented_tet_vids(ada_last'.arg)
            R  == [j \in 1..4 |-> At(vertex_attrs, vs[j]).m_posr]
            T  == [j \in 1..4 |-> At(vertex_attrs, vs[j]).m_posf]
        IN  IF \E j \in 1..4 : ~At(vertex_attrs, vs[j]).rounded
            THEN ada_last'.path = "rational" /\ ada_last'.value = Clamp(AMIPS_energy(R))
            ELSE ada_last'.path = "float" /\ ada_last'.value = Clamp(AMIPS_energy(T))
    ]_vars

\* The quality of a tet with rounded vertices and a vertex that is not rounded,
\* whose exact energy is not its floating-point energy.
C25_ExactQualityTaken ==
    /\ ada_last.op = "quality" /\ ada_last.path = "rational"
    /\ LET vs == oriented_tet_vids(ada_last.arg)
       IN  /\ \E j \in 1..4 : At(vertex_attrs, vs[j]).rounded
           /\ \E j \in 1..4 : ~At(vertex_attrs, vs[j]).rounded
           /\ ada_last.value # quality_float(vertex_attrs, ada_last.arg).ret
           /\ ada_last.value # Clamped

\* The list q of integers is strictly ascending.
StrictlyAscending(q) == \A k \in 1..(Len(q) - 1) : q[k] < q[k + 1]

\* C26: after prepare_tet_info and after any sequence of editor calls and
\* compaction, the adjacency list of every vertex is sorted in strictly ascending
\* order of tet index, without duplicates.
C26_AdjacencySorted ==
    \A v \in 1..Len(vert_conn) : StrictlyAscending(vert_conn[v])

\* An accepted edit followed by a compaction, with a vertex in several tets.
C26_EditedAndCompacted ==
    /\ last.op = "compact" /\ last.ret = "true" /\ count.calls = 2
    /\ Len(tet_attrs) # Len(before.ta)
    /\ \E v \in 1..Len(vert_conn) : Len(vert_conn[v]) >= 3

\* The tets (1-based positions) an editor call with the arguments of record r
\* works on, before the call: the live tets around the edge (split, swap_edge),
\* around v1 (collapse), on the face (swap_face).
AffectedBy(r) ==
    {t \in Alive(tet_attrs) :
        /\ HasVertex(tet_attrs[t].conn, r.a)
        /\ r.op # "collapse" => HasVertex(tet_attrs[t].conn, r.b)
        /\ r.op = "swap_face" => HasVertex(tet_attrs[t].conn, r.c)}

\* The shell slots (1-based) an editor call with the arguments of record r may
\* rewrite, before the call: the triangles on the split edge, the triangles
\* around the collapsed vertex; a swap has none.
MirrorOf(r) ==
    LET u0 == vert_attrs[r.a + 1].mid_id
        u1 == vert_attrs[r.b + 1].mid_id
    IN  IF r.op = "split"
        THEN {i \in NonEmptySlots(pc_F) : u0 # -1 /\ u1 # -1 /\ {u0, u1} \subseteq Range(pc_F[i])}
        ELSE IF r.op = "collapse"
        THEN {i \in NonEmptySlots(pc_F) : u0 # -1 /\ u0 \in Range(pc_F[i])}
        ELSE {}

\* C27: an accepted editor call changes no tet record other than setting the
\* removed flag on affected tets and appending new tets, changes the adjacency
\* lists only of vertices of an affected or a new tet, changes no vertex attribute
\* other than the appended vertex (split) or the collapsed vertex (collapse), and
\* changes no shell triangle slot other than those of the boundary faces on the
\* operated edge or vertex and freshly appended slots.
C27_EditIsLocal ==
    [][(last'.op \in Editors /\ last'.ret = "true") =>
        LET affected == AffectedBy(last')
            touched  == UNION {Range(tet_attrs[t].conn) : t \in affected}
                        \cup UNION {Range(c) : c \in Appended}
        IN  /\ Len(tet_attrs') >= Len(tet_attrs)
            /\ \A t \in 1..Len(tet_attrs) :
                    \/ tet_attrs'[t] = tet_attrs[t]
                    \/ /\ t \in affected
                       /\ tet_attrs'[t] = [tet_attrs[t] EXCEPT !.is_removed = TRUE]
            /\ \A v \in 1..Len(vert_conn) :
                    (v - 1) \notin touched => vert_conn'[v] = vert_conn[v]
            /\ \A v \in 1..Len(vert_attrs) :
                    (last'.op = "collapse" /\ v - 1 = last'.a) \/ vert_attrs'[v] = vert_attrs[v]
            /\ Len(vert_attrs') = Len(vert_attrs) + (IF last'.op = "split" /\ ~last'.noop THEN 1 ELSE 0)
            /\ Len(pc_F') >= Len(pc_F)
            /\ \A i \in 1..Len(pc_F) :
                    i \in MirrorOf(last') \/ pc_F'[i] = pc_F[i]
    ]_vars

\* An accepted collapse along a boundary edge of the core: tets were removed and
\* appended, shell slots emptied, and a tet and a shell triangle away from the
\* collapsed vertex are as they were.
C27_LocalCollapse ==
    /\ last.op = "collapse" /\ last.ret = "true" /\ count.calls = 1
    /\ Len(tet_attrs) > Len(before.ta)
    /\ \E t \in 1..Len(before.ta) : tet_attrs[t].is_removed
    /\ \E t \in 1..Len(before.ta) : ~tet_attrs[t].is_removed /\ tet_attrs[t] = before.ta[t]
    /\ \E i \in 1..Len(before.F) : pc_F[i] = None3 /\ before.F[i] # None3
    /\ \E i \in 1..Len(before.F) : pc_F[i] # None3 /\ pc_F[i] = before.F[i]

\* The vertices of the face of conn opposite to position j.
FaceSet(conn, j) == Range(conn) \ {conn[j]}

\* The faces <<u, j>> of the tets a call appended that carry tag p.
NewFacesTagged(p) ==
    {<<u, j>> \in ((Len(tet_attrs) + 1)..Len(tet_attrs')) \X (1..4) :
        tet_attrs'[u].prism_id[j] = p}

\* The tags on faces of tets the call removed that are faces of appended tets too.
SurvivingTags ==
    {tet_attrs[t].prism_id[j] :
        <<t, j>> \in {<<t, j>> \in Alive(tet_attrs) \X (1..4) :
            /\ tet_attrs'[t].is_removed
            /\ tet_attrs[t].prism_id[j] # -1
            /\ \E u \in (Len(tet_attrs) + 1)..Len(tet_attrs') : \E k \in 1..4 :
                    FaceSet(tet_attrs'[u].conn, k) = FaceSet(tet_attrs[t].conn, j)}}

\* The shell triangle indices a call wrote a triangle to.
FreshTags ==
    {i - 1 : i \in {i \in 1..Len(pc_F') :
        pc_F'[i] # None3 /\ (i > Len(pc_F) \/ pc_F'[i] # pc_F[i])}}

\* C28: the connectivity rewrite never silently drops a boundary tag: when an
\* editor that appended its new tets returns, every tag of a face of a removed
\* tet that is still a face of the mesh, and every shell triangle index the shell
\* protocol supplied, is the tag of exactly one face of the new tets; otherwise
\* the call ends in the fatal outcome.
C28_NoTagDropped ==
    [][(/\ last'.op \in Editors
        /\ Len(tet_attrs') > Len(tet_attrs)
        /\ last'.ret # "fatal") =>
        \A p \in SurvivingTags \cup FreshTags : Cardinality(NewFacesTagged(p)) = 1
    ]_vars

\* An accepted split of a boundary edge: the shell supplied new triangles and the
\* children carry tags of their parents and the new indices.
C28_TagsCarried ==
    /\ last.op = "split" /\ last.ret = "true" /\ count.calls = 1
    /\ Len(pc_F) = Len(before.F) + 2
    /\ \E t \in (Len(before.ta) + 1)..Len(tet_attrs) : \E j \in 1..4 :
            tet_attrs[t].prism_id[j] >= Len(before.F)
    /\ \E t \in (Len(before.ta) + 1)..Len(tet_attrs) : \E j \in 1..4 :
            /\ tet_attrs[t].prism_id[j] # -1
            /\ tet_attrs[t].prism_id[j] < Len(before.F)
            /\ pc_F[tet_attrs[t].prism_id[j] + 1] = before.F[tet_attrs[t].prism_id[j] + 1]

\* C29: across editor calls without compaction the tet array never shrinks, the
\* connectivity and boundary tags of a tet never change once it is appended, a
\* tet marked removed stays removed, and the vertex array is never shorter after
\* a call than before it (a rejected split truncates only the vertex it appended).
C29_ArraysOnlyGrow ==
    [][last'.op # "compact" =>
        /\ Len(tet_attrs') >= Len(tet_attrs)
        /\ \A t \in 1..Len(tet_attrs) :
                /\ tet_attrs'[t].conn = tet_attrs[t].conn
                /\ tet_attrs'[t].prism_id = tet_attrs[t].prism_id
                /\ tet_attrs[t].is_removed => tet_attrs'[t].is_removed
        /\ Len(vert_attrs') >= Len(vert_attrs)
        /\ (last'.op = "split" /\ last'.ret = "false")
                => Len(vert_attrs') = Len(vert_attrs)
    ]_vars

\* A split rolled back after an earlier edit removed tets: the removed tets and
\* the tet array are as the call found them.
C29_RollbackAfterEdit ==
    /\ last.op = "split" /\ last.ret = "false" /\ last.why = "rollback"
    /\ count.calls = 2
    /\ tet_attrs = before.ta
    /\ \E t \in 1..Len(tet_attrs) : tet_attrs[t].is_removed

\* The vertices of the tets incident to v1.
OldVerts(v1) ==
    UNION {Range(At(tet_attrs, t).conn) : t \in Range(At(vert_conn, v1))}

\* The vertices of the replacement tets of a collapse v1 -> v2: the tets of v1
\* without v2, with v1 replaced by v2.
NewVerts(v1, v2) ==
    UNION {(Range(At(tet_attrs, t).conn) \ {v1}) \cup {v2} :
            t \in {t \in Range(At(vert_conn, v1)) : v2 \notin Range(At(tet_attrs, t).conn)}}

\* The vertex count of the link condition fails for v1 -> v2.
LinkCountDiffers(v1, v2) ==
    Cardinality(NewVerts(v1, v2)) # Cardinality(OldVerts(v1)) - 1

\* C30: collapse_edge(v1 -> v2) returns false and changes no store whenever the
\* replacement tets do not span exactly one vertex less than the tets incident to
\* v1; in particular when every tet of v1 contains v2 and when v1 and v2 share no
\* tet.
C30_LinkFailureRejected ==
    [][(/\ last'.op = "collapse"
        /\ LinkCountDiffers(last'.a, last'.b)) =>
            /\ last'.ret = "false"
            /\ UNCHANGED <<vert_attrs, tet_attrs, vert_conn, pc_top, pc_base, pc_mid, pc_F,
                           pc_track_ref, target_adjustment>>]_vars

\* A call wrote the shell triangles or the tracked sets.
ShellWritten == pc_F' # pc_F \/ pc_track_ref' # pc_track_ref

\* C31: in split_edge and collapse_edge the shell triangles and tracked sets are
\* written only after every candidate tet passed the validity check (and, for
\* collapse, the quality and size gates) and the shell oracle answered success:
\* a call that wrote them never returns false, and the tets it appended are valid
\* and, for collapse, within the quality and size gates of the call.
C31_ShellWrittenAfterGates ==
    [][(last'.op \in {"split", "collapse"} /\ ShellWritten) =>
        /\ last'.ret # "false"
        /\ \A c \in Appended : tetra_validity(vert_attrs', c)
        /\ last'.op = "collapse" =>
            /\ WorstSize(vert_attrs, Appended) <= last'.sc
            /\ \/ WorstQuality(vert_attrs, Appended)
                    <= WorstQuality(vert_attrs, Incident(last'.a))
               \/ WorstQuality(vert_attrs, Appended) <= last'.th
    ]_vars

\* A split of a boundary edge that the shell oracle refused: the call returned
\* false and the shell triangles and tracked sets are the ones it started from.
C31_ShellRefusedSplit ==
    /\ last.op = "split" /\ last.ret = "false" /\ last.why = "rollback"
    /\ last.exists
    /\ edge_adjacent_boundary_face(tet_attrs, vert_conn, last.a, last.b) # <<>>
    /\ pc_F = before.F

\* The arguments of the update_pc call of a split or collapse of a boundary edge,
\* from the state the call started in.
UpdatePcArgs ==
    LET a == last'.a
        b == last'.b
        m1 == At(vert_attrs, a).mid_id
        m2 == At(vert_attrs, b).mid_id
    IN  IF last'.op = "split"
        THEN LET bp  == edge_adjacent_boundary_face(tet_attrs, vert_conn, a, b)
                 f0  == bp[1]
                 f1  == bp[Len(bp)]
                 pvx == Len(pc_mid)
             IN  [old_fid |-> <<f0, f1>>,
                  new_fid |-> <<f0, f1, Len(pc_F), Len(pc_F) + 1>>,
                  new_conn |-> <<replace(At(pc_F, f0), m1, pvx), replace(At(pc_F, f1), m1, pvx),
                                 replace(At(pc_F, f0), m2, pvx), replace(At(pc_F, f1), m2, pvx)>>]
        ELSE LET sh == CollapseShell(pc_F, nb_pids(tet_attrs, vert_conn, a), m1, m2)
             IN  [old_fid |-> sh.old_fid, new_fid |-> sh.new_fid, new_conn |-> sh.moved_tris]

\* C32: update_pc(old_fid, new_fid, new_conn, new_tracks) leaves every slot of
\* old_fid that is not in new_fid empty, makes slot new_fid[i] hold the triangle
\* new_conn[i] (the same vertices in the same cyclic order) with the tracked set
\* new_tracks[i], leaves every other slot unchanged, and leaves the triangle array
\* and the tracked-set array equally long.
C32_UpdatePcWritesSlots ==
    [][(last'.op \in {"split", "collapse"} /\ ShellWritten) =>
        \A c \in {UpdatePcArgs} :
        \A tracks \in {ShellNewTracks(pc_track_ref, c.old_fid, Len(c.new_conn))} :
            /\ \A f \in Range(c.old_fid) \ Range(c.new_fid) : At(pc_F', f) = None3
            /\ \A i \in 1..Len(c.new_fid) :
                    /\ At(pc_F', c.new_fid[i]) \in Rotations(c.new_conn[i])
                    /\ At(pc_track_ref', c.new_fid[i]) = tracks[i]
            /\ \A f \in 0..(Len(pc_F) - 1) :
                    f \notin Range(c.old_fid) \cup Range(c.new_fid) =>
                        /\ At(pc_F', f) = At(pc_F, f)
                        /\ At(pc_track_ref', f) = At(pc_track_ref, f)
            /\ Len(pc_F') = Len(pc_track_ref')
    ]_vars

\* An accepted collapse of a boundary edge: update_pc emptied two slots and
\* rewrote others in place.
C32_SlotsEmptiedAndRewritten ==
    /\ last.op = "collapse" /\ last.ret = "true"
    /\ Cardinality({f \in 1..Len(pc_F) : pc_F[f] = None3 /\ before.F[f] # None3}) = 2
    /\ \E f \in 1..Len(pc_F) : pc_F[f] # None3 /\ pc_F[f] # before.F[f]

\* C33: after an accepted collapse_edge(v1 -> v2) the adjacency list of v1 is
\* empty, no non-removed tet contains v1, v1 has no shell id, every tet that
\* contained v1 and v2 is removed without replacement, and every other tet that
\* contained v1 is removed and replaced by one tet with v2 in the place of v1.
C33_CollapseRemovesVertex ==
    [][(last'.op = "collapse" /\ last'.ret = "true") =>
        \A old \in {{t \in Alive(tet_attrs) : HasVertex(tet_attrs[t].conn, last'.a)}} :
        \A new \in {(Len(tet_attrs) + 1)..Len(tet_attrs')} :
            /\ At(vert_conn', last'.a) = <<>>
            /\ \A t \in Alive(tet_attrs') : ~HasVertex(tet_attrs'[t].conn, last'.a)
            /\ At(vert_attrs', last'.a).mid_id = -1
            /\ \A t \in old :
                /\ tet_attrs'[t].is_removed
                /\ Cardinality({u \in new :
                        tet_attrs'[u].conn = replace(tet_attrs[t].conn, last'.a, last'.b)})
                    = IF HasVertex(tet_attrs[t].conn, last'.b) THEN 0 ELSE 1
            /\ Cardinality(new)
                = Cardinality({t \in old : ~HasVertex(tet_attrs[t].conn, last'.b)})
            /\ \A u \in new : ~tet_attrs'[u].is_removed
    ]_vars

\* An accepted collapse of a shell vertex along a boundary edge that deleted tets
\* on the edge and replaced the other tets of the vertex.
C33_CollapsedShellVertex ==
    /\ last.op = "collapse" /\ last.ret = "true"
    /\ Len(tet_attrs) > Len(before.ta)
    /\ \E t \in 1..Len(before.ta) :
            /\ ~before.ta[t].is_removed
            /\ HasVertex(before.ta[t].conn, last.a) /\ HasVertex(before.ta[t].conn, last.b)
    /\ \E f \in 1..Len(pc_F) : pc_F[f] = None3 /\ before.F[f] # None3
    /\ vert_conn[last.a + 1] = <<>>

\* Some face of a non-removed tet that contains v1 and v2 carries a tag.
TaggedFaceOn(v1, v2) ==
    \E t \in Alive(tet_attrs) : \E j \in 1..4 :
        /\ tet_attrs[t].prism_id[j] # -1
        /\ {v1, v2} \subseteq FaceSet(tet_attrs[t].conn, j)

\* C34: collapse_edge(v1 -> v2) on an edge whose endpoints both have a shell id
\* while no tagged face contains both (an interior edge between two boundary
\* vertices) returns false and changes no store.
C34_InteriorEdgeOfShellVerticesRejected ==
    [][(/\ last'.op = "collapse" /\ last'.exists
        /\ vert_attrs[last'.a + 1].mid_id # -1
        /\ vert_attrs[last'.b + 1].mid_id # -1
        /\ ~TaggedFaceOn(last'.a, last'.b)) =>
            /\ last'.ret = "false"
            /\ UNCHANGED <<vert_attrs, tet_attrs, vert_conn, pc_top, pc_base, pc_mid, pc_F,
                           pc_track_ref, target_adjustment>>]_vars

\* A collapse along an interior edge between two shell vertices was rejected.
C34_InteriorEdgeRefused ==
    /\ last.op = "collapse" /\ last.ret = "false" /\ last.exists
    /\ last.why = "internal edge connecting boundary vertices"
    /\ vert_attrs[last.a + 1].mid_id # -1 /\ vert_attrs[last.b + 1].mid_id # -1
    /\ ~TaggedFaceOn(last.a, last.b)

\* The tagged faces <<t, j>> of the non-removed tets.
LiveTaggedFaces ==
    {f \in Alive(tet_attrs) \X (1..4) : tet_attrs[f[1]].prism_id[f[2]] # -1}

\* The shell ids of the three vertices of the face of conn opposite to position j.
FaceShellIds(conn, j) == {At(vert_attrs, v).mid_id : v \in FaceSet(conn, j)}

\* The tags of the non-removed tets name the shell triangles their faces lie on.
TagsNameShellTriangles ==
    /\ \A f \in LiveTaggedFaces :
        \A p \in {tet_attrs[f[1]].prism_id[f[2]]} :
            /\ p >= 0 /\ p < Len(pc_F)
            /\ At(pc_F, p) # None3
            /\ Range(At(pc_F, p)) = FaceShellIds(tet_attrs[f[1]].conn, f[2])
            /\ Cardinality(Range(At(pc_F, p))) = 3
    /\ \A f, g \in LiveTaggedFaces :
            tet_attrs[f[1]].prism_id[f[2]] = tet_attrs[g[1]].prism_id[g[2]] => f = g

\* C35: in the state prepare_tet_info builds and after every accepted edit, every
\* tag on a face of a non-removed tet is the index of a non-empty shell slot whose
\* triangle has exactly the shell ids of the three vertices of that face, and no
\* two faces of non-removed tets carry the same tag.
C35_TagsNameShellTriangles ==
    (last.op \in Editors \cup {"init"} /\ last.ret = "true") => TagsNameShellTriangles

\* Two accepted edits of boundary edges, the second a collapse, left tagged faces.
C35_TagsAfterBoundaryEdits ==
    /\ last.op = "collapse" /\ last.ret = "true" /\ count.calls = 2
    /\ \E f \in 1..Len(pc_F) : pc_F[f] = None3
    /\ Len(pc_F) > Len(RingF)
    /\ Cardinality(LiveTaggedFaces) >= 4

\* The faces of the tets the last split made.
FacesOfNewTets ==
    UNION {FaceVids(m_tet_connectivity', t) :
            t \in Len(m_tet_connectivity)..(Len(m_tet_connectivity') - 1)}

\* The face f of a new tet with the new vertex ux replaced by endpoint v.
ParentFace(f, ux, v) == Sort3([f EXCEPT ![FirstPos(f, ux)] = v])

\* C36: after the after-hook of Split, every face of a new tet that holds the new
\* vertex ux and exactly one endpoint of the split edge (v1, v2) carries the
\* attributes its parent face (v1, v2, x) had before the split, on the side of v1
\* and on the side of v2 alike; the faces of new tets without ux keep the
\* attributes they had.
C36_ChildFacesInherit ==
    [][ada_last'.op = "split" =>
        \A f \in FacesOfNewTets :
            LET v1 == ada_last'.arg[1]
                v2 == ada_last'.arg[2]
                ux == ada_last'.value
            IN  /\ (ux \in Range(f) /\ v1 \in Range(f)) =>
                        m_face_attribute'[f] = m_face_attribute[ParentFace(f, ux, v2)]
                /\ (ux \in Range(f) /\ v2 \in Range(f)) =>
                        m_face_attribute'[f] = m_face_attribute[ParentFace(f, ux, v1)]
                /\ ux \notin Range(f) => m_face_attribute'[f] = m_face_attribute[f]
    ]_vars

\* C37: a smooth_vertex call that returns false leaves the position of the
\* vertex, the base, mid and top positions at its shell id, and all shell
\* triangles and tracked sets as they were; a smooth_vertex call, accepted or
\* rejected, never changes tet connectivity, removed flags, tags or adjacency
\* lists.
C37_SmoothKeepsConnectivity ==
    [][last'.op = "smooth" =>
        /\ tet_attrs' = tet_attrs
        /\ vert_conn' = vert_conn
        /\ last'.ret = "false" =>
            \A pv0 \in {At(vert_attrs, last'.a).mid_id} :
                /\ At(vert_attrs', last'.a).pos = At(vert_attrs, last'.a).pos
                /\ pv0 # -1 =>
                    /\ Len(pc_base') = Len(pc_base) /\ Len(pc_mid') = Len(pc_mid)
                    /\ Len(pc_top') = Len(pc_top)
                    /\ InRange(pc_base, pv0) => At(pc_base', pv0) = At(pc_base, pv0)
                    /\ InRange(pc_mid, pv0) => At(pc_mid', pv0) = At(pc_mid, pv0)
                    /\ InRange(pc_top, pv0) => At(pc_top', pv0) = At(pc_top, pv0)
                /\ pc_F' = pc_F
                /\ pc_track_ref' = pc_track_ref
    ]_vars

\* A pan of a shell vertex that moved its pillar and found no point to snap to
\* was rejected.
C37_PanRejected ==
    /\ last.op = "smooth" /\ last.ret = "false" /\ last.why = "No pan."
    /\ At(vert_attrs, last.a).mid_id # -1
    /\ pc_F = before.F

\* target_adjustment has one entry for every shell vertex.
AdjustmentPerShellVertex ==
    /\ Len(target_adjustment) = Len(pc_mid)
    /\ Len(target_adjustment) = Len(pc_top)
    /\ Len(target_adjustment) = Len(pc_base)

\* C38: every split_edge call, accepted or rejected, that starts with one entry
\* of target_adjustment for every shell vertex (as many entries as the mid, top
\* and base arrays of the shell have) ends with one entry for every shell vertex,
\* so that this holds after any sequence of split_edge calls when it held at first.
C38_AdjustmentFollowsShell ==
    [][(/\ last'.op = "split" /\ last'.ret \in {"true", "false"}
        /\ AdjustmentPerShellVertex) => AdjustmentPerShellVertex']_vars

====
